---- MODULE Spec2Model ----
(***************************************************************************)
(* Model of the per-contig end-extension engine of the scaffolder:         *)
(* find_possible_extensions (overhang extractor), get_extension_mv_realign *)
(* (consensus walker) and extend_contig (refinement loop), after the       *)
(* latest scaffolder.cpp (src/unnamed/part_002).                           *)
(*                                                                         *)
(* Bases are one-character strings, sequences of bases are tuples.         *)
(* "NUL" is the terminator a std::string yields at index size().           *)
(***************************************************************************)
EXTENDS Integers, Sequences, FiniteSets, TLC

VARIABLES
    pc,                \* position inside extend_contig / the walker driver
    aln_records,       \* the batch of alignment records about to be scanned
    contig_seq,        \* the contig being extended
    left_extensions,   \* vector<shared_ptr<Extension>> of the left end
    right_extensions,  \* vector<shared_ptr<Extension>> of the right end
    should_ext_left,
    should_ext_right,
    total_left_ext,
    total_right_ext,
    contig_ext,        \* the string the running walker has built so far
    left_extension,    \* this iteration's left extension (already reversed)
    right_extension,   \* this iteration's right extension
    dropped_read_ids,  \* reads written to tmp_reads_file in this iteration
    index_called,      \* Aligner::index has been invoked
    align_called,      \* Aligner::align has been invoked
    contig0,           \* the contig as passed to extend_contig
    tunables,          \* max_ext_length, inner_margin, outer_margin, min_coverage
    run_pc,            \* position of each concurrent extend_contig run
    tmp_files,         \* for each temporary path, the run whose data it holds
    poa_calls          \* the calls made to poa_consensus, in order

vars == <<pc, aln_records, contig_seq, left_extensions, right_extensions,
          should_ext_left, should_ext_right, total_left_ext, total_right_ext,
          contig_ext, left_extension, right_extension, dropped_read_ids,
          index_called, align_called, contig0,
          tunables, run_pc, tmp_files, poa_calls>>

\* the state outside one extend_contig call: the tunables, the temporary
\* files shared by every run and the calls made to the consensus kernel
settings == <<tunables, run_pc, tmp_files, poa_calls>>

(***************************************************************************)
(* Program constants.                                                      *)
(***************************************************************************)
INNER_MARGIN == 5
OUTER_MARGIN == 15
MIN_COVERAGE == 5
UNMAPPED == 4
NUM_BASES == 4

\* int max_ext_length: the tunable set by set_max_extension_len (any value
\* greater than 0 is accepted); the model runs a small configuration.
max_ext_length == 3

\* the tunables as initialised at namespace scope
DefaultTunables ==
    [max_ext_length |-> max_ext_length, inner_margin |-> 5,
     outer_margin |-> 15, min_coverage |-> 5]

\* the names of the temporary files
tmp_contig_file == "tmp/extend_contig.fasta"
tmp_reads_file == "tmp/realign_reads.fasta"
tmp_sam_file == "tmp/realign.sam"

TmpFiles == {tmp_contig_file, tmp_reads_file, tmp_sam_file}

\* the extend_contig calls that a worker pool may run at the same time,
\* one per contig
Runs == {1, 2}

\* no setter called, no run started, no temporary file written, no call of
\* the consensus kernel made
AtDefaults ==
    /\ tunables = DefaultTunables
    /\ run_pc = [r \in Runs |-> "idle"]
    /\ tmp_files = [f \in TmpFiles |-> 0]
    /\ poa_calls = <<>>

(***************************************************************************)
(* Bounds of the model.                                                    *)
(***************************************************************************)
NumReads == 5        \* reads in the read table, ids 0 .. NumReads-1
ContigLen0 == 20     \* length of the contig passed to extend_contig
WalkerReads == 6     \* overhangs handed to a stand-alone walker run
BlockReads == 5      \* longest run of equal overhangs in a walker input
ExtractReads == 2    \* records in a batch handed to a stand-alone extraction
SimplePushes == 6    \* bases a get_extension_mv_simple run is followed for

Min(a, b) == IF a <= b THEN a ELSE b

Reverse(s) == [i \in 1..Len(s) |-> s[Len(s) + 1 - i]]

\* Unsigned conversions.  A negative int converted to uint32_t or size_t is
\* 2^32 + x or 2^64 + x; these exceed the integers of the model checker and
\* every quantity of the model, so a comparison against the converted value
\* is decided by the sign: v > unsigned(x) and v >= unsigned(x) are false
\* for x < 0.
GtUnsigned(v, x) == x >= 0 /\ v > x
GeUnsigned(v, x) == x >= 0 /\ v >= x

(***************************************************************************)
(* utility:: helpers                                                       *)
(***************************************************************************)
\* {0:'A', 1:'T', 2:'G', 3:'C'}
idx_to_base(idx) ==
    CASE idx = 0 -> "A" [] idx = 1 -> "T" [] idx = 2 -> "G" [] idx = 3 -> "C"

contributes_to_seq_len(op) == IF op \in {"M", "I", "S", "X", "="} THEN 1 ELSE 0

contributes_to_contig_len(op) == IF op \in {"M", "D", "X", "="} THEN 1 ELSE 0

(***************************************************************************)
(* std::string::substr(pos, n): throws std::out_of_range when pos > size() *)
(* (pos is a size_t, so a negative int argument is a huge position).       *)
(***************************************************************************)
SubstrThrows(s, pos) == ~(pos >= 0 /\ pos <= Len(s))

Substr(s, pos, n) == SubSeq(s, pos + 1, Min(pos + n, Len(s)))

(***************************************************************************)
(* Extension objects                                                       *)
(***************************************************************************)
Extension(read_id, seq, drop) ==
    [read_id |-> read_id, seq |-> seq, curr_pos |-> 0, is_droped |-> drop]

(***************************************************************************)
(* find_possible_extensions                                                *)
(***************************************************************************)
RECURSIVE used_read_size(_, _)
\* the accumulation loop over record.cigar, from element i on
used_read_size(cigar, i) ==
    IF i > Len(cigar) THEN 0
    ELSE (IF contributes_to_seq_len(cigar[i].operation) = 1
          THEN cigar[i].count ELSE 0) + used_read_size(cigar, i + 1)

RECURSIVE used_contig_size(_, _)
used_contig_size(cigar, i) ==
    IF i > Len(cigar) THEN 0
    ELSE (IF contributes_to_contig_len(cigar[i].operation) = 1
          THEN cigar[i].count ELSE 0) + used_contig_size(cigar, i + 1)

IsMapped(record) == (record.flag \div UNMAPPED) % 2 = 0

\* LeftCandidate with beginPos = OUTER_MARGIN accepted
LeftCandidateInclusive(record) ==
    /\ IsMapped(record)
    /\ Len(record.cigar) > 0
    /\ record.cigar[1].operation = "S"
    /\ record.beginPos <= OUTER_MARGIN
    /\ GtUnsigned(record.cigar[1].count, record.beginPos)

\* first if-statement of the loop body: the left end
LeftCandidate(record) ==
    /\ IsMapped(record)
    /\ Len(record.cigar) > 0
    /\ record.cigar[1].operation = "S"
    /\ record.beginPos < OUTER_MARGIN
    /\ GtUnsigned(record.cigar[1].count, record.beginPos)

LeftLen(record) == record.cigar[1].count - record.beginPos

\* LeftStart without the offset for overhangs longer than max_ext_length
LeftStartZero(record) == 0

LeftStart(record) ==
    IF LeftLen(record) <= max_ext_length THEN 0
    ELSE LeftLen(record) - max_ext_length

LeftLive(record) == record.beginPos < INNER_MARGIN

LeftThrows(record) ==
    LeftCandidate(record) /\ LeftLive(record)
        /\ SubstrThrows(record.seq, LeftStart(record))

LeftExtension(record) ==
    IF LeftLive(record)
    THEN Extension(record.qName,
                   Reverse(Substr(record.seq, LeftStart(record), max_ext_length)),
                   FALSE)
    ELSE Extension(record.qName, <<>>, TRUE)

\* second if-statement of the loop body: the right end
RightClipped(record) ==
    /\ IsMapped(record)
    /\ Len(record.cigar) > 0
    /\ record.cigar[Len(record.cigar)].operation = "S"

RightClippingLen(record) == record.cigar[Len(record.cigar)].count

UsedReadSize(record) ==
    used_read_size(record.cigar, 1) - RightClippingLen(record)

UsedContigSize(record) == used_contig_size(record.cigar, 1)

Margin(record, contig_len) ==
    contig_len - (record.beginPos + UsedContigSize(record))

RightLen(record, contig_len) ==
    RightClippingLen(record) - Margin(record, contig_len)

RightCandidate(record, contig_len) ==
    /\ RightClipped(record)
    /\ ~(Margin(record, contig_len) > OUTER_MARGIN)
    /\ ~(RightLen(record, contig_len) <= 0)

RightStart(record, contig_len) ==
    UsedReadSize(record)
        + (RightClippingLen(record) - RightLen(record, contig_len))

RightThrows(record, contig_len) ==
    RightCandidate(record, contig_len)
        /\ SubstrThrows(record.seq, RightStart(record, contig_len))

RightDrop(record, contig_len) == Margin(record, contig_len) > INNER_MARGIN

RightExtension(record, contig_len) ==
    IF RightDrop(record, contig_len)
    THEN Extension(record.qName, <<>>, TRUE)
    ELSE Extension(record.qName,
                   Substr(record.seq, RightStart(record, contig_len),
                          max_ext_length),
                   FALSE)

RECURSIVE find_possible_extensions(_, _, _, _, _)
\* Scans records[i..]; the result holds the two lists and whether a
\* std::out_of_range left the function (the lists are then lost with the
\* frame of the caller).
find_possible_extensions(records, i, left, right, contig_len) ==
    IF i > Len(records) THEN [left |-> left, right |-> right, threw |-> FALSE]
    ELSE LET record == records[i]
             left1 == IF LeftCandidate(record)
                      THEN Append(left, LeftExtension(record))
                      ELSE left
         IN  IF LeftThrows(record)
             THEN [left |-> left, right |-> right, threw |-> TRUE]
             ELSE IF RightThrows(record, contig_len)
             THEN [left |-> left1, right |-> right, threw |-> TRUE]
             ELSE find_possible_extensions(records, i + 1, left1,
                      IF RightCandidate(record, contig_len)
                      THEN Append(right, RightExtension(record, contig_len))
                      ELSE right,
                      contig_len)

(***************************************************************************)
(* bases::count_bases and BasesCounter                                     *)
(***************************************************************************)
ANY == "any"

\* does overhang e add to bin k of the histogram taken at the given offset,
\* restricted to overhangs whose current base is elig (ANY: no restriction)
Counts(e, k, elig, offset) ==
    /\ ~e.is_droped
    /\ e.curr_pos + offset < Len(e.seq)
    /\ elig = ANY \/ e.seq[e.curr_pos + 1] = elig
    /\ e.seq[e.curr_pos + offset + 1] = idx_to_base(k)

count_bases(extensions, elig, offset) ==
    LET count == [k \in 0..(NUM_BASES - 1) |->
                    Cardinality({j \in 1..Len(extensions) :
                                    Counts(extensions[j], k, elig, offset)})]
        coverage == count[0] + count[1] + count[2] + count[3]
        \* argmax, the lowest index on a tie
        max_idx == CHOOSE k \in 0..(NUM_BASES - 1) :
                      /\ \A m \in 0..(NUM_BASES - 1) : count[m] <= count[k]
                      /\ \A m \in 0..(k - 1) : count[m] < count[k]
    IN  [count |-> count, coverage |-> coverage, max_idx |-> max_idx]

(***************************************************************************)
(* Extension::do_operation                                                 *)
(***************************************************************************)
do_operation(e, op) ==
    CASE op = "match"       -> [e EXCEPT !.curr_pos = @ + 1]
      [] op = "deletion_1"  -> e
      [] op = "mismatch"    -> [e EXCEPT !.curr_pos = @ + 1]
      [] op = "insertion_1" -> [e EXCEPT !.curr_pos = @ + 2]

(***************************************************************************)
(* get_extension_mv_realign, one pass of its for (i = 0; true; ++i) loop   *)
(***************************************************************************)
UBChars == {"A", "T", "G", "C", "NUL"}

\* what seq[p] can yield: the base, the terminator at p = size(), and
\* anything past it (out-of-bounds read)
CharsAt(seq, p) ==
    IF p < Len(seq) THEN {seq[p + 1]}
    ELSE IF p = Len(seq) THEN {"NUL"}
    ELSE UBChars

\* the length test asking for three bases left instead of two
TooShortByThree(e) == GeUnsigned(e.curr_pos, Len(e.seq) - 3)

\* if (extension->curr_pos() >= seq.length() - 2), in size_t arithmetic
TooShort(e) == GeUnsigned(e.curr_pos, Len(e.seq) - 2)

\* Realign with the flag recomputed from the length test in every pass
\* instead of being kept once set
RealignRecomputed(e, output_base, next_mv, current_base, next_base) ==
    IF e.is_droped \/ TooShort(e) THEN [e EXCEPT !.is_droped = TooShort(e)]
    ELSE IF current_base = output_base THEN do_operation(e, "match")
    ELSE IF current_base = next_mv THEN do_operation(e, "deletion_1")
    ELSE IF next_base = next_mv THEN do_operation(e, "mismatch")
    ELSE IF next_base = output_base THEN do_operation(e, "insertion_1")
    ELSE [e EXCEPT !.is_droped = TRUE]

\* Realign with an insertion that advances the cursor by one base only
RealignInsertionByOne(e, output_base, next_mv, current_base, next_base) ==
    IF e.is_droped THEN e
    ELSE IF TooShort(e) THEN [e EXCEPT !.is_droped = TRUE]
    ELSE IF current_base = output_base THEN do_operation(e, "match")
    ELSE IF current_base = next_mv THEN do_operation(e, "deletion_1")
    ELSE IF next_base = next_mv THEN do_operation(e, "mismatch")
    ELSE IF next_base = output_base THEN do_operation(e, "mismatch")
    ELSE [e EXCEPT !.is_droped = TRUE]

\* Realign with a hit that leaves the cursor where it is
RealignMatchStays(e, output_base, next_mv, current_base, next_base) ==
    IF e.is_droped THEN e
    ELSE IF TooShort(e) THEN [e EXCEPT !.is_droped = TRUE]
    ELSE IF current_base = output_base THEN do_operation(e, "deletion_1")
    ELSE IF current_base = next_mv THEN do_operation(e, "deletion_1")
    ELSE IF next_base = next_mv THEN do_operation(e, "mismatch")
    ELSE IF next_base = output_base THEN do_operation(e, "insertion_1")
    ELSE [e EXCEPT !.is_droped = TRUE]

\* the body of the "cigar operation check" loop for one extension, where
\* current_base and next_base are the two characters read
Realign(e, output_base, next_mv, current_base, next_base) ==
    IF e.is_droped THEN e
    ELSE IF TooShort(e) THEN [e EXCEPT !.is_droped = TRUE]
    ELSE IF current_base = output_base THEN do_operation(e, "match")
    ELSE IF current_base = next_mv THEN do_operation(e, "deletion_1")
    ELSE IF next_base = next_mv THEN do_operation(e, "mismatch")
    ELSE IF next_base = output_base THEN do_operation(e, "insertion_1")
    ELSE [e EXCEPT !.is_droped = TRUE]

\* the extensions one overhang can turn into in a realignment step
RealignOutcomes(e, output_base, next_mv) ==
    IF e.is_droped \/ TooShort(e)
    THEN {Realign(e, output_base, next_mv, "NUL", "NUL")}
    ELSE {Realign(e, output_base, next_mv, c, n) :
            c \in CharsAt(e.seq, e.curr_pos),
            n \in CharsAt(e.seq, e.curr_pos + 1)}

RECURSIVE RealignAll(_, _, _, _)
\* the lists the realignment loop can leave, for extensions[i..]
RealignAll(extensions, i, output_base, next_mv) ==
    IF i > Len(extensions) THEN {<<>>}
    ELSE {<<h>> \o t :
            h \in RealignOutcomes(extensions[i], output_base, next_mv),
            t \in RealignAll(extensions, i + 1, output_base, next_mv)}

\* WalkerBases with the coverage counting every live overhang that has a
\* character at its cursor, a base or not
WalkerBasesEveryCharacter(extensions) ==
    [count_bases(extensions, ANY, 0) EXCEPT
        !.coverage = Cardinality({j \in 1..Len(extensions) :
                        /\ ~extensions[j].is_droped
                        /\ extensions[j].curr_pos < Len(extensions[j].seq)})]

\* BasesCounter bases = bases::count_bases(extensions)
WalkerBases(extensions) == count_bases(extensions, ANY, 0)

\* WalkerOutputBase taking, among the bases with the highest count, the one
\* with the highest index
WalkerOutputBaseLastTied(extensions) ==
    LET count == WalkerBases(extensions).count
    IN  idx_to_base(CHOOSE k \in 0..(NUM_BASES - 1) :
                       /\ \A m \in 0..(NUM_BASES - 1) : count[m] <= count[k]
                       /\ \A m \in (k + 1)..(NUM_BASES - 1) :
                            count[m] < count[k])

WalkerOutputBase(extensions) == idx_to_base(WalkerBases(extensions).max_idx)

\* output_base is a local of the pass, computed once
WalkerNextBases(extensions) ==
    CHOOSE next_bases \in {count_bases(extensions, output_base, 1) :
                              output_base \in {WalkerOutputBase(extensions)}} :
       TRUE

WalkerNextMv(extensions) == idx_to_base(WalkerNextBases(extensions).max_idx)

\* CoverageGate passing as soon as one base is counted
CoverageGateAnyBase(extensions) == WalkerBases(extensions).coverage >= 1

\* bases.coverage >= MIN_COVERAGE
CoverageGate(extensions) == WalkerBases(extensions).coverage >= MIN_COVERAGE

\* !(next_bases.coverage < 0.6 * MIN_COVERAGE), in tenths
LookAheadGate(extensions) ==
    ~(10 * WalkerNextBases(extensions).coverage < 6 * MIN_COVERAGE)

\* WalkerEmits with the base pushed before the look-ahead vote is consulted
WalkerEmitsCoverageOnly(extensions) == CoverageGate(extensions)

\* the pass pushes a base and realigns; otherwise it breaks out of the loop
WalkerEmits(extensions) == CoverageGate(extensions) /\ LookAheadGate(extensions)

\* the lists the pass can leave; output_base and next_mv are locals of the
\* pass, computed once before the realignment loop
WalkerAfter(extensions) ==
    UNION {RealignAll(extensions, 1, output_base, next_mv) :
              output_base \in {WalkerOutputBase(extensions)},
              next_mv \in {WalkerNextMv(extensions)}}

(***************************************************************************)
(* Alignment records: the input of extend_contig and the external          *)
(* aligner's answers.  A record is drawn from a pool of shapes; a shape    *)
(* is laid out against the current contig length, the aligned part being   *)
(* 1M <n>D 1M so that the read stays short.                                *)
(***************************************************************************)
Record(read, flag, beginPos, cigar, seq) ==
    [qName |-> read, flag |-> flag, beginPos |-> beginPos,
     cigar |-> cigar, seq |-> seq]

Op(operation, count) == [operation |-> operation, count |-> count]

\* a mapped record with left clip lclip, starting at beginPos, ending
\* margin bases before the contig end, with right clip rclip
Mapped(read, lclip, beginPos, margin, rclip, contig_len) ==
    Record(read, 0, beginPos,
           (IF Len(lclip) > 0 THEN <<Op("S", Len(lclip))>> ELSE <<>>)
             \o <<Op("M", 1), Op("D", contig_len - beginPos - margin - 2),
                  Op("M", 1)>>
             \o (IF Len(rclip) > 0 THEN <<Op("S", Len(rclip))>> ELSE <<>>),
           lclip \o <<"G", "G">> \o rclip)

\* the pool of record shapes, for one read against a contig length
Shapes(read, contig_len) ==
    << \* dangles left, usable
       Mapped(read, <<"A", "A", "A">>, 0, 0, <<>>, contig_len),
       \* dangles right, usable
       Mapped(read, <<>>, 0, 0, <<"T", "T", "C">>, contig_len),
       \* usable on the left, between the margins on the right
       Mapped(read, <<"A", "A", "A">>, 0, 6,
              <<"C", "C", "C", "C", "C", "C", "T">>, contig_len),
       \* between the margins on the left
       Mapped(read, <<"C", "C", "C", "C", "C", "A">>, 5, 0, <<>>, contig_len),
       \* usable on both ends
       Mapped(read, <<"A", "T", "A">>, 1, 1, <<"G", "T", "T", "C">>,
              contig_len),
       \* one base dangling left
       Mapped(read, <<"A">>, 0, 0, <<>>, contig_len),
       \* SEQ shorter than the CIGAR requires
       [Mapped(read, <<>>, 0, 0, <<"T", "T">>, contig_len)
          EXCEPT !.seq = <<"G">>],
       \* unmapped read
       Record(read, UNMAPPED, -1, <<>>, <<"A", "T">>) >>

ShapeIds == 1..Len(Shapes(0, ContigLen0))

Block(k, n) == [i \in 1..n |-> k]

\* The batches for n reads, at most one record per read.  A uniform batch
\* gives the same shape to the first reads and no record to the others; a
\* mixed batch has two such runs of reads.
Batches(n, mixed) ==
    {Block(q[1], q[2]) \o Block(q[3], q[4]) \o Block(0, n - q[2] - q[4]) :
        q \in {q \in ShapeIds \X (0..n) \X ShapeIds \X (0..n) :
                 /\ q[2] + q[4] <= n
                 /\ q[4] > 0 => (mixed /\ q[2] > 0)}}

\* the records of a batch: entry 0 means the read has no record
RECURSIVE BatchRecords(_, _, _, _)
BatchRecords(reads, batch, i, contig_len) ==
    IF i > Len(reads) THEN <<>>
    ELSE (IF batch[i] = 0 THEN <<>>
          ELSE <<Shapes(reads[i], contig_len)[batch[i]]>>)
         \o BatchRecords(reads, batch, i + 1, contig_len)

AlignerOutputs(reads, contig_len, mixed) ==
    {BatchRecords(reads, b, 1, contig_len) : b \in Batches(Len(reads), mixed)}

AllReads == [i \in 1..NumReads |-> i - 1]

InitialContig == [i \in 1..ContigLen0 |-> idx_to_base(i % 4)]

(***************************************************************************)
(* extend_contig                                                           *)
(***************************************************************************)
\* std::string -> Dna5String: anything outside ACGTN becomes N
ToDna5String(s) ==
    [i \in 1..Len(s) |-> IF s[i] \in {"A", "C", "G", "T", "N"} THEN s[i] ELSE "N"]

\* GrownContig without the final += right_extension
GrownContigLeftOnly(left, contig, right) == ToDna5String(left) \o contig

\* GrownContig with the two extensions on the wrong ends
GrownContigSwapped(left, contig, right) ==
    ToDna5String(right) \o contig \o ToDna5String(left)

\* tmp_contig_seq = left_extension; += contig_seq; += right_extension
GrownContig(left, contig, right) ==
    ToDna5String(left) \o contig \o ToDna5String(right)

\* should_ext = should_ext && total < max_ext_length
\* Clamp recomputing the flag from the total alone
ClampFromTotal(should_ext, total) == total < max_ext_length

Clamp(should_ext, total) == should_ext /\ total < max_ext_length

\* Survivors keeping every overhang, dropped or not
SurvivorsAll(extensions) == extensions

\* tmp_left_extensions / tmp_right_extensions after a partition loop
Survivors(extensions) == SelectSeq(extensions, LAMBDA e : ~e.is_droped)

RECURSIVE DroppedReadsUnmarked(_, _, _)
\* DroppedReads without the realign_reads test: a read is appended for each
\* of its dropped overhangs
DroppedReadsUnmarked(extensions, i, marked) ==
    IF i > Len(extensions) THEN <<>>
    ELSE IF extensions[i].is_droped
    THEN <<extensions[i].read_id>>
         \o DroppedReadsUnmarked(extensions, i + 1, marked)
    ELSE DroppedReadsUnmarked(extensions, i + 1, marked)

RECURSIVE DroppedReads(_, _, _)
\* the reads appended to dropped_read_ids while scanning extensions[i..],
\* given those already marked in realign_reads
DroppedReads(extensions, i, marked) ==
    IF i > Len(extensions) THEN <<>>
    ELSE IF extensions[i].is_droped /\ extensions[i].read_id \notin marked
    THEN <<extensions[i].read_id>>
         \o DroppedReads(extensions, i + 1, marked \cup {extensions[i].read_id})
    ELSE DroppedReads(extensions, i + 1, marked)

Range(s) == {s[i] : i \in 1..Len(s)}

\* RealignReads with the left list scanned only
RealignReadsLeftOnly(left, right) == DroppedReads(left, 1, {})

\* dropped_read_ids after the two partition loops
RealignReads(left, right) ==
    LET l == DroppedReads(left, 1, {})
    IN  l \o DroppedReads(right, 1, Range(l))

\* WillRealign with the flag set for every overhang seen, dropped or not
WillRealignAny(left, right) == left /= <<>> \/ right /= <<>>

\* will_realign after the two partition loops
WillRealign(left, right) == RealignReads(left, right) /= <<>>

\* the state on entry to extend_contig with the given input batches
Entry(inputs) ==
    /\ pc = "start"
    /\ aln_records \in inputs
    /\ contig_seq = InitialContig
    /\ contig0 = InitialContig
    /\ left_extensions = <<>>
    /\ right_extensions = <<>>
    /\ should_ext_left = TRUE
    /\ should_ext_right = TRUE
    /\ total_left_ext = 0
    /\ total_right_ext = 0
    /\ contig_ext = <<>>
    /\ left_extension = <<>>
    /\ right_extension = <<>>
    /\ dropped_read_ids = <<>>
    /\ index_called = FALSE
    /\ align_called = FALSE
    /\ AtDefaults

Init == Entry(AlignerOutputs(AllReads, ContigLen0, TRUE))

\* the first find_possible_extensions call and the initialisation
ExtractInitial ==
    /\ pc = "start"
    /\ LET r == find_possible_extensions(aln_records, 1, <<>>, <<>>,
                                         Len(contig_seq))
       IN  IF r.threw
           THEN /\ pc' = "threw_out_of_range"
                /\ UNCHANGED <<left_extensions, right_extensions>>
           ELSE /\ pc' = "loop"
                /\ left_extensions' = r.left
                /\ right_extensions' = r.right
    /\ aln_records' = <<>>
    /\ UNCHANGED <<contig_seq, contig0, should_ext_left, should_ext_right,
                   total_left_ext, total_right_ext, contig_ext,
                   left_extension, right_extension, dropped_read_ids,
                   index_called, align_called>>
    /\ UNCHANGED settings

\* LoopCondition as while (true)
LoopConditionAlways(ext_left, ext_right) == TRUE

\* while (should_ext_left || should_ext_right)
LoopCondition(ext_left, ext_right) == ext_left \/ ext_right

\* the loop test; leaving the loop returns the Contig
LoopTest ==
    /\ pc = "loop"
    /\ pc' = IF LoopCondition(should_ext_left, should_ext_right)
             THEN "left" ELSE "done"
    /\ left_extension' = <<>>
    /\ right_extension' = <<>>
    /\ UNCHANGED <<aln_records, contig_seq, contig0, left_extensions,
                   right_extensions, should_ext_left, should_ext_right,
                   total_left_ext, total_right_ext, contig_ext,
                   dropped_read_ids, index_called, align_called>>
    /\ UNCHANGED settings

\* one emitting pass of the walker on the left list
WalkLeftEmit ==
    /\ pc = "left"
    /\ should_ext_left
    /\ WalkerEmits(left_extensions)
    /\ contig_ext' = Append(contig_ext, WalkerOutputBase(left_extensions))
    /\ left_extensions' \in WalkerAfter(left_extensions)
    /\ UNCHANGED <<pc, aln_records, contig_seq, contig0, right_extensions,
                   should_ext_left, should_ext_right, total_left_ext,
                   total_right_ext, left_extension, right_extension,
                   dropped_read_ids, index_called, align_called>>
    /\ UNCHANGED settings

\* the walker breaks out; the left extension is reversed and accounted
WalkLeftStop ==
    /\ pc = "left"
    /\ should_ext_left
    /\ ~WalkerEmits(left_extensions)
    /\ left_extension' = Reverse(contig_ext)
    /\ should_ext_left' = (contig_ext /= <<>>)
    /\ total_left_ext' = total_left_ext + Len(contig_ext)
    /\ contig_ext' = <<>>
    /\ pc' = "right"
    /\ UNCHANGED <<aln_records, contig_seq, contig0, left_extensions,
                   right_extensions, should_ext_right, total_right_ext,
                   right_extension, dropped_read_ids, index_called,
                   align_called>>
    /\ UNCHANGED settings

SkipLeft ==
    /\ pc = "left"
    /\ ~should_ext_left
    /\ pc' = "right"
    /\ UNCHANGED <<aln_records, contig_seq, contig0, left_extensions,
                   right_extensions, should_ext_left, should_ext_right,
                   total_left_ext, total_right_ext, contig_ext,
                   left_extension, right_extension, dropped_read_ids,
                   index_called, align_called>>
    /\ UNCHANGED settings

WalkRightEmit ==
    /\ pc = "right"
    /\ should_ext_right
    /\ WalkerEmits(right_extensions)
    /\ contig_ext' = Append(contig_ext, WalkerOutputBase(right_extensions))
    /\ right_extensions' \in WalkerAfter(right_extensions)
    /\ UNCHANGED <<pc, aln_records, contig_seq, contig0, left_extensions,
                   should_ext_left, should_ext_right, total_left_ext,
                   total_right_ext, left_extension, right_extension,
                   dropped_read_ids, index_called, align_called>>
    /\ UNCHANGED settings

WalkRightStop ==
    /\ pc = "right"
    /\ should_ext_right
    /\ ~WalkerEmits(right_extensions)
    /\ right_extension' = contig_ext
    /\ should_ext_right' = (contig_ext /= <<>>)
    /\ total_right_ext' = total_right_ext + Len(contig_ext)
    /\ contig_ext' = <<>>
    /\ pc' = "grow"
    /\ UNCHANGED <<aln_records, contig_seq, contig0, left_extensions,
                   right_extensions, should_ext_left, total_left_ext,
                   left_extension, dropped_read_ids, index_called,
                   align_called>>
    /\ UNCHANGED settings

SkipRight ==
    /\ pc = "right"
    /\ ~should_ext_right
    /\ pc' = "grow"
    /\ UNCHANGED <<aln_records, contig_seq, contig0, left_extensions,
                   right_extensions, should_ext_left, should_ext_right,
                   total_left_ext, total_right_ext, contig_ext,
                   left_extension, right_extension, dropped_read_ids,
                   index_called, align_called>>
    /\ UNCHANGED settings

\* clamp, grow the contig, partition the lists; nothing to realign: break
GrowAndReturn ==
    /\ pc = "grow"
    /\ ~WillRealign(left_extensions, right_extensions)
    /\ should_ext_left' = Clamp(should_ext_left, total_left_ext)
    /\ should_ext_right' = Clamp(should_ext_right, total_right_ext)
    /\ contig_seq' = GrownContig(left_extension, contig_seq, right_extension)
    /\ dropped_read_ids' = <<>>
    /\ pc' = "done"
    /\ UNCHANGED <<aln_records, contig0, left_extensions, right_extensions,
                   total_left_ext, total_right_ext, contig_ext,
                   left_extension, right_extension, index_called,
                   align_called>>
    /\ UNCHANGED settings

\* GrowAndRealign handing over to align without the index call
GrowAndRealignUnindexed ==
    /\ pc = "grow"
    /\ WillRealign(left_extensions, right_extensions)
    /\ should_ext_left' = Clamp(should_ext_left, total_left_ext)
    /\ should_ext_right' = Clamp(should_ext_right, total_right_ext)
    /\ contig_seq' = GrownContig(left_extension, contig_seq, right_extension)
    /\ dropped_read_ids' = RealignReads(left_extensions, right_extensions)
    /\ left_extensions' = Survivors(left_extensions)
    /\ right_extensions' = Survivors(right_extensions)
    /\ pc' = "align"
    /\ UNCHANGED <<aln_records, contig0, total_left_ext, total_right_ext,
                   contig_ext, left_extension, right_extension, index_called,
                   align_called>>
    /\ UNCHANGED settings

\* clamp, grow the contig, partition the lists, write the dropped reads
GrowAndRealign ==
    /\ pc = "grow"
    /\ WillRealign(left_extensions, right_extensions)
    /\ should_ext_left' = Clamp(should_ext_left, total_left_ext)
    /\ should_ext_right' = Clamp(should_ext_right, total_right_ext)
    /\ contig_seq' = GrownContig(left_extension, contig_seq, right_extension)
    /\ dropped_read_ids' = RealignReads(left_extensions, right_extensions)
    /\ left_extensions' = Survivors(left_extensions)
    /\ right_extensions' = Survivors(right_extensions)
    /\ pc' = "index"
    /\ UNCHANGED <<aln_records, contig0, total_left_ext, total_right_ext,
                   contig_ext, left_extension, right_extension, index_called,
                   align_called>>
    /\ UNCHANGED settings

\* Aligner::index runs a shell command through utility::execute_command,
\* which throws std::runtime_error when the command exits nonzero
execute_command(exit_value) == IF exit_value = 0 THEN "returned" ELSE "threw"

ExitValues == {0, 1}

IndexContig ==
    /\ pc = "index"
    /\ index_called' = TRUE
    /\ \E exit_value \in ExitValues :
          pc' = IF execute_command(exit_value) = "threw"
                THEN "threw_runtime_error" ELSE "align"
    /\ UNCHANGED <<aln_records, contig_seq, contig0, left_extensions,
                   right_extensions, should_ext_left, should_ext_right,
                   total_left_ext, total_right_ext, contig_ext,
                   left_extension, right_extension, dropped_read_ids,
                   align_called>>
    /\ UNCHANGED settings

\* Aligner::align, then read_sam of its output
AlignReads ==
    /\ pc = "align"
    /\ align_called' = TRUE
    /\ \E exit_value \in ExitValues :
          IF execute_command(exit_value) = "threw"
          THEN pc' = "threw_runtime_error" /\ UNCHANGED aln_records
          ELSE /\ pc' = "extract"
               /\ aln_records' \in
                     AlignerOutputs(dropped_read_ids, Len(contig_seq), FALSE)
    /\ UNCHANGED <<contig_seq, contig0, left_extensions, right_extensions,
                   should_ext_left, should_ext_right, total_left_ext,
                   total_right_ext, contig_ext, left_extension,
                   right_extension, dropped_read_ids, index_called>>
    /\ UNCHANGED settings

\* the second find_possible_extensions call and the size test
ExtractAgain ==
    /\ pc = "extract"
    /\ LET r == find_possible_extensions(aln_records, 1, left_extensions,
                                         right_extensions, Len(contig_seq))
       IN  IF r.threw
           THEN /\ pc' = "threw_out_of_range"
                /\ UNCHANGED <<left_extensions, right_extensions>>
           ELSE /\ left_extensions' = r.left
                /\ right_extensions' = r.right
                /\ pc' = IF Len(r.left) < MIN_COVERAGE
                            /\ Len(r.right) < MIN_COVERAGE
                         THEN "done" ELSE "loop"
    /\ aln_records' = <<>>
    /\ UNCHANGED <<contig_seq, contig0, should_ext_left, should_ext_right,
                   total_left_ext, total_right_ext, contig_ext,
                   left_extension, right_extension, dropped_read_ids,
                   index_called, align_called>>
    /\ UNCHANGED settings

Next ==
    \/ ExtractInitial
    \/ LoopTest
    \/ WalkLeftEmit
    \/ WalkLeftStop
    \/ SkipLeft
    \/ WalkRightEmit
    \/ WalkRightStop
    \/ SkipRight
    \/ GrowAndReturn
    \/ GrowAndRealign
    \/ IndexContig
    \/ AlignReads
    \/ ExtractAgain

Spec == Init /\ [][Next]_vars

\* Runs for termination: the input batch maps all its reads the same way,
\* and the function keeps running until it returns or throws.
InitUniform == Entry(AlignerOutputs(AllReads, ContigLen0, FALSE))

FairSpec == InitUniform /\ [][Next]_vars /\ WF_vars(Next)

(***************************************************************************)
(* A stand-alone run of get_extension_mv_realign on a list of fresh        *)
(* overhangs (left_extensions holds the list, contig_ext the result).      *)
(***************************************************************************)
WalkerPool ==
    << Extension(0, <<"A", "C", "G", "T">>, FALSE),
       Extension(0, <<"A", "G", "T">>, FALSE),       \* lacks the C
       Extension(0, <<"T", "C", "G", "T">>, FALSE),  \* first base differs
       Extension(0, <<"T", "A", "C">>, FALSE),       \* one extra leading base
       Extension(0, <<"G", "G", "G">>, FALSE),       \* unrelated
       Extension(0, <<"A", "N", "G", "T">>, FALSE),  \* holds a non-ATGC base
       Extension(0, <<"A">>, FALSE),                 \* one base
       Extension(0, <<>>, FALSE),                    \* no base, live
       Extension(0, <<>>, TRUE) >>                   \* placeholder

RECURSIVE SortedLists(_, _)
\* the non-decreasing index lists of length n over lo..Len(WalkerPool)
SortedLists(n, lo) ==
    IF n = 0 THEN {<<>>}
    ELSE UNION {{<<k>> \o t : t \in SortedLists(n - 1, k)} :
                   k \in lo..Len(WalkerPool)}

WalkerInputs ==
    {[j \in 1..WalkerReads |-> [WalkerPool[l[j]] EXCEPT !.read_id = j - 1]] :
        l \in SortedLists(WalkerReads, 1)}

InitW ==
    /\ pc = "walk"
    /\ left_extensions \in WalkerInputs
    /\ aln_records = <<>>
    /\ contig_seq = InitialContig
    /\ contig0 = InitialContig
    /\ right_extensions = <<>>
    /\ should_ext_left = TRUE
    /\ should_ext_right = TRUE
    /\ total_left_ext = 0
    /\ total_right_ext = 0
    /\ contig_ext = <<>>
    /\ left_extension = <<>>
    /\ right_extension = <<>>
    /\ dropped_read_ids = <<>>
    /\ index_called = FALSE
    /\ align_called = FALSE
    /\ AtDefaults

\* a pass that pushes a base and realigns
WalkerPass ==
    /\ pc = "walk"
    /\ WalkerEmits(left_extensions)
    /\ contig_ext' = Append(contig_ext, WalkerOutputBase(left_extensions))
    /\ left_extensions' \in WalkerAfter(left_extensions)
    /\ UNCHANGED <<pc, aln_records, contig_seq, contig0, right_extensions,
                   should_ext_left, should_ext_right, total_left_ext,
                   total_right_ext, left_extension, right_extension,
                   dropped_read_ids, index_called, align_called>>
    /\ UNCHANGED settings

\* the pass that breaks out of the loop; contig_ext is returned
WalkerBreak ==
    /\ pc = "walk"
    /\ ~WalkerEmits(left_extensions)
    /\ pc' = "returned"
    /\ UNCHANGED <<aln_records, contig_seq, contig0, left_extensions,
                   right_extensions, should_ext_left, should_ext_right,
                   total_left_ext, total_right_ext, contig_ext,
                   left_extension, right_extension, dropped_read_ids,
                   index_called, align_called>>
    /\ UNCHANGED settings

NextW == WalkerPass \/ WalkerBreak

SpecW == InitW /\ [][NextW]_vars

(***************************************************************************)
(* Two runs of get_extension_mv_realign, one on a list of overhangs and    *)
(* one on a reordering of the same overhangs (separate Extension objects): *)
(* left_extensions and left_extension are the list and the returned string *)
(* of the first run, right_extensions and right_extension those of the     *)
(* second.                                                                 *)
(***************************************************************************)
Rotate(s) == IF Len(s) = 0 THEN s ELSE Tail(s) \o <<Head(s)>>

Reorderings(s) == {Reverse(s), Rotate(s)}

InitP ==
    /\ pc = "walk_first"
    /\ left_extensions \in WalkerInputs
    /\ right_extensions \in Reorderings(left_extensions)
    /\ aln_records = <<>>
    /\ contig_seq = InitialContig
    /\ contig0 = InitialContig
    /\ should_ext_left = TRUE
    /\ should_ext_right = TRUE
    /\ total_left_ext = 0
    /\ total_right_ext = 0
    /\ contig_ext = <<>>
    /\ left_extension = <<>>
    /\ right_extension = <<>>
    /\ dropped_read_ids = <<>>
    /\ index_called = FALSE
    /\ align_called = FALSE
    /\ AtDefaults

FirstRunPass ==
    /\ pc = "walk_first"
    /\ WalkerEmits(left_extensions)
    /\ left_extension' =
           Append(left_extension, WalkerOutputBase(left_extensions))
    /\ left_extensions' \in WalkerAfter(left_extensions)
    /\ UNCHANGED <<pc, aln_records, contig_seq, contig0, right_extensions,
                   should_ext_left, should_ext_right, total_left_ext,
                   total_right_ext, contig_ext, right_extension,
                   dropped_read_ids, index_called, align_called>>
    /\ UNCHANGED settings

FirstRunBreak ==
    /\ pc = "walk_first"
    /\ ~WalkerEmits(left_extensions)
    /\ pc' = "walk_second"
    /\ UNCHANGED <<aln_records, contig_seq, contig0, left_extensions,
                   right_extensions, should_ext_left, should_ext_right,
                   total_left_ext, total_right_ext, contig_ext,
                   left_extension, right_extension, dropped_read_ids,
                   index_called, align_called>>
    /\ UNCHANGED settings

SecondRunPass ==
    /\ pc = "walk_second"
    /\ WalkerEmits(right_extensions)
    /\ right_extension' =
           Append(right_extension, WalkerOutputBase(right_extensions))
    /\ right_extensions' \in WalkerAfter(right_extensions)
    /\ UNCHANGED <<pc, aln_records, contig_seq, contig0, left_extensions,
                   should_ext_left, should_ext_right, total_left_ext,
                   total_right_ext, contig_ext, left_extension,
                   dropped_read_ids, index_called, align_called>>
    /\ UNCHANGED settings

SecondRunBreak ==
    /\ pc = "walk_second"
    /\ ~WalkerEmits(right_extensions)
    /\ pc' = "both_returned"
    /\ UNCHANGED <<aln_records, contig_seq, contig0, left_extensions,
                   right_extensions, should_ext_left, should_ext_right,
                   total_left_ext, total_right_ext, contig_ext,
                   left_extension, right_extension, dropped_read_ids,
                   index_called, align_called>>
    /\ UNCHANGED settings

NextP == FirstRunPass \/ FirstRunBreak \/ SecondRunPass \/ SecondRunBreak

SpecP == InitP /\ [][NextP]_vars

(***************************************************************************)
(* A run of get_extension_mv_realign on a list made of up to two runs of   *)
(* equal overhangs: either overhangs of two or more bases and              *)
(* placeholders, or overhangs of fewer than two bases and placeholders     *)
(* (lists that mix short and long overhangs are inputs of SpecW).          *)
(***************************************************************************)
LongPool ==
    << Extension(0, <<"A", "C", "G", "T">>, FALSE),
       Extension(0, <<"A", "G", "T">>, FALSE),
       Extension(0, <<"T", "C", "G", "T">>, FALSE),
       Extension(0, <<"A", "A", "A", "A">>, FALSE),
       Extension(0, <<"A", "C">>, FALSE),
       Extension(0, <<"A", "N", "G", "T">>, FALSE),  \* holds a non-ATGC base
       Extension(0, <<>>, TRUE) >>                   \* placeholder

ShortPool ==
    << Extension(0, <<"A">>, FALSE),                 \* one base
       Extension(0, <<>>, FALSE),                    \* no base, live
       Extension(0, <<>>, TRUE) >>                   \* placeholder

Copies(e, n) == [j \in 1..n |-> e]

\* n1 copies of one overhang of the pool followed by n2 copies of another
Blocks(pool) ==
    {[j \in 1..(n1 + n2) |->
         [(Copies(pool[a], n1) \o Copies(pool[b], n2))[j]
            EXCEPT !.read_id = j - 1]] :
        a \in 1..Len(pool), b \in 1..Len(pool),
        n1 \in 0..BlockReads, n2 \in 0..BlockReads}

BlockInputs == Blocks(LongPool) \cup Blocks(ShortPool)

InitB ==
    /\ pc = "walk"
    /\ left_extensions \in BlockInputs
    /\ aln_records = <<>>
    /\ contig_seq = InitialContig
    /\ contig0 = InitialContig
    /\ right_extensions = <<>>
    /\ should_ext_left = TRUE
    /\ should_ext_right = TRUE
    /\ total_left_ext = 0
    /\ total_right_ext = 0
    /\ contig_ext = <<>>
    /\ left_extension = <<>>
    /\ right_extension = <<>>
    /\ dropped_read_ids = <<>>
    /\ index_called = FALSE
    /\ align_called = FALSE
    /\ AtDefaults

SpecB == InitB /\ [][NextW]_vars

(***************************************************************************)
(* A run of get_extension_mv_realign that is taken to its return: the      *)
(* list is made of up to two runs of equal overhangs of two or more bases, *)
(* followed by at most one overhang of fewer than two bases.               *)
(***************************************************************************)
TerminationPool == << LongPool[1], LongPool[2], LongPool[4] >>

TerminationTails ==
    {<<>>, <<ShortPool[1]>>, <<ShortPool[2]>>}

TerminationInputs ==
    {[j \in 1..(Len(l) + Len(t)) |-> [(l \o t)[j] EXCEPT !.read_id = j - 1]] :
        l \in Blocks(TerminationPool), t \in TerminationTails}

InitWT ==
    /\ pc = "walk"
    /\ left_extensions \in TerminationInputs
    /\ aln_records = <<>>
    /\ contig_seq = InitialContig
    /\ contig0 = InitialContig
    /\ right_extensions = <<>>
    /\ should_ext_left = TRUE
    /\ should_ext_right = TRUE
    /\ total_left_ext = 0
    /\ total_right_ext = 0
    /\ contig_ext = <<>>
    /\ left_extension = <<>>
    /\ right_extension = <<>>
    /\ dropped_read_ids = <<>>
    /\ index_called = FALSE
    /\ align_called = FALSE
    /\ AtDefaults

\* the loop is a sequential for loop: a pass that can run does run
FairSpecW == InitWT /\ [][NextW]_vars /\ WF_vars(NextW)

(***************************************************************************)
(* A call of find_possible_extensions on a batch of records, one per read, *)
(* into empty lists.  The records lie at the limits of the candidacy       *)
(* tests: clip lengths around max_ext_length, beginPos and margin at and   *)
(* next to INNER_MARGIN and OUTER_MARGIN.                                  *)
(***************************************************************************)
\* a clip of n bases: n - 1 times C, then the base last
Clip(n, last) == [i \in 1..n |-> IF i = n THEN last ELSE "C"]

EdgeShapes(read, contig_len) ==
    << \* left clip shorter than max_ext_length
       Mapped(read, <<"A">>, 0, 0, <<>>, contig_len),
       Mapped(read, <<"A", "T", "A">>, 1, 0, <<>>, contig_len),
       \* left clip of max_ext_length bases
       Mapped(read, <<"T", "T", "A">>, 0, 0, <<>>, contig_len),
       \* left clips longer than max_ext_length
       Mapped(read, <<"C", "A", "T", "G", "A">>, 0, 0, <<>>, contig_len),
       Mapped(read, <<"C", "A", "T", "G", "A">>, 1, 0, <<>>, contig_len),
       \* beginPos next to, and at, INNER_MARGIN
       Mapped(read, Clip(INNER_MARGIN, "A"), INNER_MARGIN - 1, 0, <<>>,
              contig_len),
       Mapped(read, Clip(INNER_MARGIN + 1, "A"), INNER_MARGIN, 0, <<>>,
              contig_len),
       \* beginPos next to, and at, OUTER_MARGIN
       Mapped(read, Clip(OUTER_MARGIN, "A"), OUTER_MARGIN - 1, 0, <<>>,
              contig_len),
       Mapped(read, Clip(OUTER_MARGIN + 1, "A"), OUTER_MARGIN, 0, <<>>,
              contig_len),
       \* right clip at the contig end
       Mapped(read, <<>>, 0, 0, <<"T", "T", "C">>, contig_len),
       \* margin next to, at, and past INNER_MARGIN
       Mapped(read, <<>>, 0, INNER_MARGIN - 1, Clip(INNER_MARGIN, "T"),
              contig_len),
       Mapped(read, <<>>, 0, INNER_MARGIN, Clip(INNER_MARGIN + 1, "T"),
              contig_len),
       Mapped(read, <<>>, 0, INNER_MARGIN + 1, Clip(INNER_MARGIN + 2, "T"),
              contig_len),
       \* margin at, and past, OUTER_MARGIN
       Mapped(read, <<>>, 0, OUTER_MARGIN, Clip(OUTER_MARGIN + 1, "T"),
              contig_len),
       Mapped(read, <<>>, 0, OUTER_MARGIN + 1, Clip(OUTER_MARGIN + 2, "T"),
              contig_len),
       \* SEQ shorter than the CIGAR requires
       [Mapped(read, <<>>, 0, 0, <<"T", "T">>, contig_len)
          EXCEPT !.seq = <<"G">>],
       \* unmapped read
       Record(read, UNMAPPED, -1, <<>>, <<"A", "T">>) >>

EdgeBatches ==
    {[r \in 1..ExtractReads |-> EdgeShapes(r - 1, ContigLen0)[k[r]]] :
        k \in [1..ExtractReads -> 1..Len(EdgeShapes(0, ContigLen0))]}

InitE ==
    /\ pc = "scan"
    /\ aln_records \in EdgeBatches
    /\ contig_seq = InitialContig
    /\ contig0 = InitialContig
    /\ left_extensions = <<>>
    /\ right_extensions = <<>>
    /\ should_ext_left = TRUE
    /\ should_ext_right = TRUE
    /\ total_left_ext = 0
    /\ total_right_ext = 0
    /\ contig_ext = <<>>
    /\ left_extension = <<>>
    /\ right_extension = <<>>
    /\ dropped_read_ids = <<>>
    /\ index_called = FALSE
    /\ align_called = FALSE
    /\ AtDefaults

\* the call returns with the two lists filled
ScanRecords ==
    /\ pc = "scan"
    /\ LET found == find_possible_extensions(aln_records, 1, <<>>, <<>>,
                                             Len(contig_seq))
       IN  /\ ~found.threw
           /\ left_extensions' = found.left
           /\ right_extensions' = found.right
    /\ pc' = "scanned"
    /\ UNCHANGED <<aln_records, contig_seq, contig0, should_ext_left,
                   should_ext_right, total_left_ext, total_right_ext,
                   contig_ext, left_extension, right_extension,
                   dropped_read_ids, index_called, align_called>>
    /\ UNCHANGED settings

\* a substr call throws std::out_of_range
ScanThrows ==
    /\ pc = "scan"
    /\ find_possible_extensions(aln_records, 1, <<>>, <<>>,
                                Len(contig_seq)).threw
    /\ pc' = "threw_out_of_range"
    /\ UNCHANGED <<aln_records, contig_seq, contig0, left_extensions,
                   right_extensions, should_ext_left, should_ext_right,
                   total_left_ext, total_right_ext, contig_ext,
                   left_extension, right_extension, dropped_read_ids,
                   index_called, align_called>>
    /\ UNCHANGED settings

NextE == ScanRecords \/ ScanThrows

SpecE == InitE /\ [][NextE]_vars

(***************************************************************************)
(* The setters of the tunables, called any number of times in any order,   *)
(* followed by one use of the core: a call of find_possible_extensions on  *)
(* one record or a run of get_extension_mv_realign.                        *)
(***************************************************************************)
\* arguments passed to set_inner_margin, set_outer_margin, set_min_coverage
ConfigValues == {-1, 0, 6, 20}

\* arguments passed to set_max_extension_len; the core is modelled for the
\* length max_ext_length, the other arguments are the rejected ones
LengthValues == {-1, 0, max_ext_length}

\* utility::exit_with_message: prints the message and exits the program
exit_with_message == "exited"

set_max_extension_len(length, t) ==
    IF length > 0 THEN [t EXCEPT !.max_ext_length = length] ELSE t

set_inner_margin(margin, t) ==
    IF margin >= 0 THEN [t EXCEPT !.inner_margin = margin] ELSE t

set_outer_margin(margin, t) ==
    IF margin >= 0 /\ margin >= t.inner_margin
        THEN [t EXCEPT !.outer_margin = margin] ELSE t

set_min_coverage(coverage, t) ==
    IF coverage > 0 THEN [t EXCEPT !.min_coverage = coverage] ELSE t

\* a setter call: the value is stored, or the program exits
SetMaxExtensionLen ==
    /\ pc = "configure"
    /\ \E length \in LengthValues :
        /\ tunables' = set_max_extension_len(length, tunables)
        /\ pc' = IF length > 0 THEN "configure" ELSE exit_with_message
    /\ UNCHANGED <<aln_records, contig_seq, contig0, left_extensions,
                   right_extensions, should_ext_left, should_ext_right,
                   total_left_ext, total_right_ext, contig_ext,
                   left_extension, right_extension, dropped_read_ids,
                   index_called, align_called, run_pc, tmp_files, poa_calls>>

SetInnerMargin ==
    /\ pc = "configure"
    /\ \E margin \in ConfigValues :
        /\ tunables' = set_inner_margin(margin, tunables)
        /\ pc' = IF margin >= 0 THEN "configure" ELSE exit_with_message
    /\ UNCHANGED <<aln_records, contig_seq, contig0, left_extensions,
                   right_extensions, should_ext_left, should_ext_right,
                   total_left_ext, total_right_ext, contig_ext,
                   left_extension, right_extension, dropped_read_ids,
                   index_called, align_called, run_pc, tmp_files, poa_calls>>

SetOuterMargin ==
    /\ pc = "configure"
    /\ \E margin \in ConfigValues :
        /\ tunables' = set_outer_margin(margin, tunables)
        /\ pc' = IF margin >= 0 /\ margin >= tunables.inner_margin THEN "configure" ELSE exit_with_message
    /\ UNCHANGED <<aln_records, contig_seq, contig0, left_extensions,
                   right_extensions, should_ext_left, should_ext_right,
                   total_left_ext, total_right_ext, contig_ext,
                   left_extension, right_extension, dropped_read_ids,
                   index_called, align_called, run_pc, tmp_files, poa_calls>>

SetMinCoverage ==
    /\ pc = "configure"
    /\ \E coverage \in ConfigValues :
        /\ tunables' = set_min_coverage(coverage, tunables)
        /\ pc' = IF coverage > 0 THEN "configure" ELSE exit_with_message
    /\ UNCHANGED <<aln_records, contig_seq, contig0, left_extensions,
                   right_extensions, should_ext_left, should_ext_right,
                   total_left_ext, total_right_ext, contig_ext,
                   left_extension, right_extension, dropped_read_ids,
                   index_called, align_called, run_pc, tmp_files, poa_calls>>

\* one record at a limit of the candidacy tests
OneRecordBatches ==
    {<<EdgeShapes(0, ContigLen0)[k]>> : k \in 1..Len(EdgeShapes(0, ContigLen0))}

\* runs of the overhangs ACGT and AAAA
ConfiguredWalkerInputs == Blocks(<<LongPool[1], LongPool[4]>>)

\* the configured program calls find_possible_extensions
ConfiguredScan ==
    /\ pc = "configure"
    /\ aln_records' \in OneRecordBatches
    /\ pc' = "scan"
    /\ UNCHANGED <<contig_seq, contig0, left_extensions, right_extensions,
                   should_ext_left, should_ext_right, total_left_ext,
                   total_right_ext, contig_ext, left_extension,
                   right_extension, dropped_read_ids, index_called,
                   align_called>>
    /\ UNCHANGED settings

\* the configured program calls get_extension_mv_realign
ConfiguredWalk ==
    /\ pc = "configure"
    /\ left_extensions' \in ConfiguredWalkerInputs
    /\ pc' = "walk"
    /\ UNCHANGED <<aln_records, contig_seq, contig0, right_extensions,
                   should_ext_left, should_ext_right, total_left_ext,
                   total_right_ext, contig_ext, left_extension,
                   right_extension, dropped_read_ids, index_called,
                   align_called>>
    /\ UNCHANGED settings

InitT ==
    /\ pc = "configure"
    /\ aln_records = <<>>
    /\ contig_seq = InitialContig
    /\ contig0 = InitialContig
    /\ left_extensions = <<>>
    /\ right_extensions = <<>>
    /\ should_ext_left = TRUE
    /\ should_ext_right = TRUE
    /\ total_left_ext = 0
    /\ total_right_ext = 0
    /\ contig_ext = <<>>
    /\ left_extension = <<>>
    /\ right_extension = <<>>
    /\ dropped_read_ids = <<>>
    /\ index_called = FALSE
    /\ align_called = FALSE
    /\ AtDefaults

NextT ==
    \/ SetMaxExtensionLen
    \/ SetInnerMargin
    \/ SetOuterMargin
    \/ SetMinCoverage
    \/ ConfiguredScan
    \/ ScanRecords
    \/ ScanThrows
    \/ ConfiguredWalk
    \/ WalkerPass
    \/ WalkerBreak

SpecT == InitT /\ [][NextT]_vars

(***************************************************************************)
(* The refinement loops of the extend_contig calls of two contigs, run at  *)
(* the same time by a worker pool and reduced to their steps on the        *)
(* temporary files.  tmp_files[f] is the run whose data file f holds (0:   *)
(* not written yet); a step of a run is atomic, the steps of the two runs  *)
(* interleave.                                                             *)
(***************************************************************************)
\* the paths a run passes to write_fasta, the aligner and read_sam: the
\* namespace-scope constants, whatever the run
ContigFileOf(r) == tmp_contig_file
ReadsFileOf(r) == tmp_reads_file
SamFileOf(r) == tmp_sam_file

\* utility::write_fasta("contig", contig_seq, tmp_contig_file), in the first
\* or a further iteration of the loop
WriteContigFile ==
    \E r \in Runs :
        /\ run_pc[r] \in {"idle", "loop"}
        /\ tmp_files' = [tmp_files EXCEPT ![ContigFileOf(r)] = r]
        /\ run_pc' = [run_pc EXCEPT ![r] = "partition"]
    /\ UNCHANGED <<pc, aln_records, contig_seq, contig0, left_extensions,
                   right_extensions, should_ext_left, should_ext_right,
                   total_left_ext, total_right_ext, contig_ext,
                   left_extension, right_extension, dropped_read_ids,
                   index_called, align_called, tunables, poa_calls>>

\* if (!will_realign) break, and the break on short lists at the loop's end
ReturnRun ==
    \E r \in Runs :
        /\ run_pc[r] \in {"partition", "loop"}
        /\ run_pc' = [run_pc EXCEPT ![r] = "returned"]
        /\ UNCHANGED tmp_files
    /\ UNCHANGED <<pc, aln_records, contig_seq, contig0, left_extensions,
                   right_extensions, should_ext_left, should_ext_right,
                   total_left_ext, total_right_ext, contig_ext,
                   left_extension, right_extension, dropped_read_ids,
                   index_called, align_called, tunables, poa_calls>>

\* utility::write_fasta(dropped_read_ids, dropped_read_seqs, tmp_reads_file)
WriteReadsFile ==
    \E r \in Runs :
        /\ run_pc[r] = "partition"
        /\ tmp_files' = [tmp_files EXCEPT ![ReadsFileOf(r)] = r]
        /\ run_pc' = [run_pc EXCEPT ![r] = "index"]
    /\ UNCHANGED <<pc, aln_records, contig_seq, contig0, left_extensions,
                   right_extensions, should_ext_left, should_ext_right,
                   total_left_ext, total_right_ext, contig_ext,
                   left_extension, right_extension, dropped_read_ids,
                   index_called, align_called, tunables, poa_calls>>

\* Aligner::index(tmp_contig_file)
IndexContigFile ==
    \E r \in Runs :
        /\ run_pc[r] = "index"
        /\ run_pc' = [run_pc EXCEPT ![r] = "align"]
        /\ UNCHANGED tmp_files
    /\ UNCHANGED <<pc, aln_records, contig_seq, contig0, left_extensions,
                   right_extensions, should_ext_left, should_ext_right,
                   total_left_ext, total_right_ext, contig_ext,
                   left_extension, right_extension, dropped_read_ids,
                   index_called, align_called, tunables, poa_calls>>

\* Aligner::align(tmp_contig_file, tmp_reads_file, tmp_sam_file, true)
AlignReadsFile ==
    \E r \in Runs :
        /\ run_pc[r] = "align"
        /\ tmp_files' = [tmp_files EXCEPT ![SamFileOf(r)] = r]
        /\ run_pc' = [run_pc EXCEPT ![r] = "read_sam"]
    /\ UNCHANGED <<pc, aln_records, contig_seq, contig0, left_extensions,
                   right_extensions, should_ext_left, should_ext_right,
                   total_left_ext, total_right_ext, contig_ext,
                   left_extension, right_extension, dropped_read_ids,
                   index_called, align_called, tunables, poa_calls>>

\* utility::read_sam(&header, &records, tmp_sam_file) and the extraction
ReadSamFile ==
    \E r \in Runs :
        /\ run_pc[r] = "read_sam"
        /\ run_pc' = [run_pc EXCEPT ![r] = "loop"]
        /\ UNCHANGED tmp_files
    /\ UNCHANGED <<pc, aln_records, contig_seq, contig0, left_extensions,
                   right_extensions, should_ext_left, should_ext_right,
                   total_left_ext, total_right_ext, contig_ext,
                   left_extension, right_extension, dropped_read_ids,
                   index_called, align_called, tunables, poa_calls>>

InitF ==
    /\ pc = "workers"
    /\ aln_records = <<>>
    /\ contig_seq = InitialContig
    /\ contig0 = InitialContig
    /\ left_extensions = <<>>
    /\ right_extensions = <<>>
    /\ should_ext_left = TRUE
    /\ should_ext_right = TRUE
    /\ total_left_ext = 0
    /\ total_right_ext = 0
    /\ contig_ext = <<>>
    /\ left_extension = <<>>
    /\ right_extension = <<>>
    /\ dropped_read_ids = <<>>
    /\ index_called = FALSE
    /\ align_called = FALSE
    /\ AtDefaults

NextF ==
    \/ WriteContigFile
    \/ ReturnRun
    \/ WriteReadsFile
    \/ IndexContigFile
    \/ AlignReadsFile
    \/ ReadSamFile

SpecF == InitF /\ [][NextF]_vars

(***************************************************************************)
(* extend_contig entered with a batch in which every read dangles past     *)
(* both contig ends by mirrored clips: the right clip is a string s, the   *)
(* left clip its reverse, both alignments flush with the contig ends.  The  *)
(* run is followed through the two walker calls of the first refinement    *)
(* iteration.                                                              *)
(***************************************************************************)
\* the strings s: shorter than, as long as and longer than max_ext_length
MirroredStrings ==
    { <<"A", "C">>, <<"G", "T">>, <<"A", "C", "G">>, <<"T", "C", "A">>,
      <<"A", "C", "G", "T">>, <<"T", "T", "C", "A", "G">> }

MirroredBatches ==
    {[i \in 1..n |-> Mapped(i - 1, Reverse(s), 0, 0, s, ContigLen0)] :
        s \in MirroredStrings, n \in 0..NumReads}

InitS == Entry(MirroredBatches)

NextS ==
    \/ ExtractInitial
    \/ LoopTest
    \/ WalkLeftEmit
    \/ WalkLeftStop
    \/ WalkRightEmit
    \/ WalkRightStop

SpecS == InitS /\ [][NextS]_vars

(***************************************************************************)
(* extend_contig_poa: one extraction, then one call of the consensus       *)
(* kernel per contig end.  poa_calls records each call's argument and      *)
(* answer.                                                                 *)
(***************************************************************************)
\* PoaSequences without the test for an empty sequence
PoaSequencesAll(extensions) ==
    [j \in 1..Len(extensions) |-> Substr(extensions[j].seq, 0, max_ext_length)]

\* the vector<string> filled from a list of overhangs
PoaSequences(extensions) ==
    LET kept == SelectSeq(extensions, LAMBDA e : e.seq /= <<>>)
    IN  [j \in 1..Len(kept) |-> Substr(kept[j].seq, 0, max_ext_length)]

\* the answers poa_consensus can give: the kernel is external, its answer
\* is taken to be one of the sequences it was given, the empty string for
\* no sequence
poa_consensus(sequences) ==
    IF sequences = <<>> THEN {<<>>} ELSE Range(sequences)

ExtendContigPoa ==
    /\ pc = "poa"
    /\ LET found == find_possible_extensions(aln_records, 1, <<>>, <<>>,
                                             Len(contig_seq))
       IN  /\ ~found.threw
           /\ left_extensions' = found.left
           /\ right_extensions' = found.right
           /\ \E left_consensus \in poa_consensus(PoaSequences(found.left)),
                 right_consensus \in poa_consensus(PoaSequences(found.right)) :
                 /\ poa_calls' =
                       << [extensions |-> PoaSequences(found.left),
                           consensus |-> left_consensus],
                          [extensions |-> PoaSequences(found.right),
                           consensus |-> right_consensus] >>
                 /\ left_extension' = Reverse(left_consensus)
                 /\ right_extension' = right_consensus
    /\ pc' = "poa_returned"
    /\ UNCHANGED <<aln_records, contig_seq, contig0, should_ext_left,
                   should_ext_right, total_left_ext, total_right_ext,
                   contig_ext, dropped_read_ids, index_called, align_called,
                   tunables, run_pc, tmp_files>>

\* a substr call of the extraction throws std::out_of_range
ExtendContigPoaThrows ==
    /\ pc = "poa"
    /\ find_possible_extensions(aln_records, 1, <<>>, <<>>,
                                Len(contig_seq)).threw
    /\ pc' = "threw_out_of_range"
    /\ UNCHANGED <<aln_records, contig_seq, contig0, left_extensions,
                   right_extensions, should_ext_left, should_ext_right,
                   total_left_ext, total_right_ext, contig_ext,
                   left_extension, right_extension, dropped_read_ids,
                   index_called, align_called>>
    /\ UNCHANGED settings

InitA ==
    /\ pc = "poa"
    /\ aln_records \in EdgeBatches
    /\ contig_seq = InitialContig
    /\ contig0 = InitialContig
    /\ left_extensions = <<>>
    /\ right_extensions = <<>>
    /\ should_ext_left = TRUE
    /\ should_ext_right = TRUE
    /\ total_left_ext = 0
    /\ total_right_ext = 0
    /\ contig_ext = <<>>
    /\ left_extension = <<>>
    /\ right_extension = <<>>
    /\ dropped_read_ids = <<>>
    /\ index_called = FALSE
    /\ align_called = FALSE
    /\ AtDefaults

NextA == ExtendContigPoa \/ ExtendContigPoaThrows

SpecA == InitA /\ [][NextA]_vars

(***************************************************************************)
(* A stand-alone run of get_extension_mv_simple (left_extensions holds the *)
(* list, contig_ext the string called extension in the code).  The run is  *)
(* followed for SimplePushes bases, more than any overhang of the inputs   *)
(* holds.                                                                  *)
(***************************************************************************)
InitM ==
    /\ pc = "simple"
    /\ left_extensions \in BlockInputs
    /\ aln_records = <<>>
    /\ contig_seq = InitialContig
    /\ contig0 = InitialContig
    /\ right_extensions = <<>>
    /\ should_ext_left = TRUE
    /\ should_ext_right = TRUE
    /\ total_left_ext = 0
    /\ total_right_ext = 0
    /\ contig_ext = <<>>
    /\ left_extension = <<>>
    /\ right_extension = <<>>
    /\ dropped_read_ids = <<>>
    /\ index_called = FALSE
    /\ align_called = FALSE
    /\ AtDefaults

\* a pass with bases.coverage >= MIN_COVERAGE: the base is pushed and
\* nothing else changes
SimplePass ==
    /\ pc = "simple"
    /\ Len(contig_ext) < SimplePushes
    /\ CoverageGate(left_extensions)
    /\ contig_ext' = Append(contig_ext, WalkerOutputBase(left_extensions))
    /\ UNCHANGED <<pc, aln_records, contig_seq, contig0, left_extensions,
                   right_extensions, should_ext_left, should_ext_right,
                   total_left_ext, total_right_ext, left_extension,
                   right_extension, dropped_read_ids, index_called,
                   align_called>>
    /\ UNCHANGED settings

\* the pass that breaks out of the loop; extension is returned
SimpleBreak ==
    /\ pc = "simple"
    /\ ~CoverageGate(left_extensions)
    /\ pc' = "returned"
    /\ UNCHANGED <<aln_records, contig_seq, contig0, left_extensions,
                   right_extensions, should_ext_left, should_ext_right,
                   total_left_ext, total_right_ext, contig_ext,
                   left_extension, right_extension, dropped_read_ids,
                   index_called, align_called>>
    /\ UNCHANGED settings

NextM ==
    \/ SimplePass
    \/ SimpleBreak

\* the loop is a sequential for loop: a pass that can run does run
FairSpecM == InitM /\ [][NextM]_vars /\ WF_vars(NextM)

(***************************************************************************)
(* Properties                                                              *)
(***************************************************************************)
Returned == pc = "done"

Threw == pc \in {"threw_runtime_error", "threw_out_of_range"}

\* C1: outside the window between the accounting of a walker result and the
\* growth of the contig (that is, after every refinement iteration), the
\* contig length is the initial length plus total_left_ext plus
\* total_right_ext; and no step of extend_contig decreases either total.
C1_LengthAccounting ==
    /\ [](pc \notin {"right", "grow"} =>
            Len(contig_seq) = Len(contig0) + total_left_ext + total_right_ext)
    /\ [][/\ total_left_ext' >= total_left_ext
          /\ total_right_ext' >= total_right_ext]_vars

\* a run that realigned and returned a contig extended on both ends
C1_Witness ==
    /\ Returned
    /\ align_called
    /\ total_left_ext > 0
    /\ total_right_ext > 0
    /\ Len(contig_seq) > Len(contig0)

IsBase(c) == c \in {"A", "T", "G", "C"}

\* live overhangs whose current base is one of A, T, G, C
LiveCoverage(extensions) ==
    Cardinality({j \in 1..Len(extensions) :
        /\ ~extensions[j].is_droped
        /\ extensions[j].curr_pos < Len(extensions[j].seq)
        /\ IsBase(extensions[j].seq[extensions[j].curr_pos + 1])})

\* live overhangs whose current base is b and whose next base is one of
\* A, T, G, C
LookAheadCoverage(extensions, b) ==
    Cardinality({j \in 1..Len(extensions) :
        /\ ~extensions[j].is_droped
        /\ extensions[j].curr_pos + 1 < Len(extensions[j].seq)
        /\ extensions[j].seq[extensions[j].curr_pos + 1] = b
        /\ IsBase(extensions[j].seq[extensions[j].curr_pos + 2])})

\* C2: a walker pass appends a base b only from a list whose current-base
\* coverage is at least MIN_COVERAGE and whose look-ahead coverage, taken
\* over the live overhangs with current base b, is at least
\* 0.6 * MIN_COVERAGE; a pass whose look-ahead gate fails appends nothing.
C2_EmissionGated ==
    [][Len(contig_ext') > Len(contig_ext) =>
        /\ Len(contig_ext') = Len(contig_ext) + 1
        /\ LiveCoverage(left_extensions) >= MIN_COVERAGE
        /\ 10 * LookAheadCoverage(left_extensions,
                                  contig_ext'[Len(contig_ext')])
             >= 6 * MIN_COVERAGE]_vars

\* the walker emitted, and then stopped with enough current-base coverage:
\* the look-ahead vote withheld the tentative base
C2_Witness ==
    /\ pc = "returned"
    /\ contig_ext /= <<>>
    /\ LiveCoverage(left_extensions) >= MIN_COVERAGE

NoDuplicateRead(extensions) ==
    \A i, j \in 1..Len(extensions) :
        extensions[i].read_id = extensions[j].read_id => i = j

\* C3: when a walker pass starts, no read id occurs twice in the left list
\* and none occurs twice in the right list (every batch of the model holds
\* at most one record per read).
C3_ReadOncePerSide ==
    pc = "left" =>
        NoDuplicateRead(left_extensions) /\ NoDuplicateRead(right_extensions)

\* C4: total_left_ext and total_right_ext never exceed max_ext_length.
C4_TotalsWithinMaxExt ==
    total_left_ext <= max_ext_length /\ total_right_ext <= max_ext_length

\* C5: every run of extend_contig leaves the refinement loop: it returns the
\* Contig or an exception leaves the function.
C5_LoopTerminates == <>(Returned \/ Threw)

\* the aligner answered with placeholders only, no walker pass emitted, and
\* the function returned
C5_Witness ==
    /\ Returned
    /\ align_called
    /\ total_left_ext = 0
    /\ total_right_ext = 0
    /\ Len(left_extensions) >= MIN_COVERAGE
    /\ \A j \in 1..Len(left_extensions) : left_extensions[j].is_droped

NoneDropped ==
    /\ \A j \in 1..Len(left_extensions) : ~left_extensions[j].is_droped
    /\ \A j \in 1..Len(right_extensions) : ~right_extensions[j].is_droped

\* C6: when the walker passes of an iteration leave no dropped overhang on
\* either side, the next step of extend_contig returns, invoking neither
\* Aligner::index nor Aligner::align; and nothing runs after the return.
C6_NoDropNoAligner ==
    /\ [][(pc = "grow" /\ NoneDropped) =>
            (pc' = "done" /\ UNCHANGED <<index_called, align_called>>)]_vars
    /\ [][pc /= "done"]_vars

\* a walker ran over live overhangs, dropped none, and the function returned
\* without the aligner ever being invoked
C6_Witness ==
    /\ Returned
    /\ NoneDropped
    /\ left_extensions /= <<>>
    /\ ~index_called
    /\ ~align_called

\* C7: a nonzero exit of the aligner's index or align command does not
\* leave extend_contig as an exception.
C7_AlignerFailureContained == pc /= "threw_runtime_error"

\* C8: no record makes find_possible_extensions raise an error.
C8_MalformedRecordSkipped == pc /= "threw_out_of_range"

\* C9: a walker pass changes the curr_pos of every overhang by 0, 1 or 2
\* and never clears a dropped flag.
C9_CursorMonotone ==
    [][/\ Len(left_extensions') = Len(left_extensions)
       /\ \A j \in 1..Len(left_extensions) :
            /\ left_extensions'[j].curr_pos - left_extensions[j].curr_pos
                 \in {0, 1, 2}
            /\ left_extensions[j].is_droped => left_extensions'[j].is_droped
      ]_vars

\* the walker returned after dropping an overhang that held bases and
\* moving another one, still inside its bases, by two or more
C9_Witness ==
    /\ pc = "returned"
    /\ \E j \in 1..Len(left_extensions) :
          left_extensions[j].is_droped /\ left_extensions[j].seq /= <<>>
    /\ \E j \in 1..Len(left_extensions) :
          /\ ~left_extensions[j].is_droped
          /\ left_extensions[j].curr_pos >= 2
          /\ left_extensions[j].curr_pos < Len(left_extensions[j].seq)

\* C10: in every state of a walker run every live overhang has
\* curr_pos <= len(seq) - 2.
C10_LiveCursorBound ==
    \A j \in 1..Len(left_extensions) :
        ~left_extensions[j].is_droped =>
            left_extensions[j].curr_pos <= Len(left_extensions[j].seq) - 2

\* the two runs returned the same string and left every overhang (matched
\* by read id) with the same cursor and flag
RunsAgree ==
    /\ left_extension = right_extension
    /\ \A i \in 1..Len(left_extensions), j \in 1..Len(right_extensions) :
         left_extensions[i].read_id = right_extensions[j].read_id =>
            /\ left_extensions[i].curr_pos = right_extensions[j].curr_pos
            /\ left_extensions[i].is_droped = right_extensions[j].is_droped

\* C11: a run of get_extension_mv_realign on a reordering of a list of
\* overhangs returns the same string as the run on the list and leaves each
\* overhang with the same curr_pos and dropped flag.
C11_ReorderingIndistinguishable == pc = "both_returned" => RunsAgree

\* the list holds n1 overhangs s1 followed by n2 overhangs s2
IsBlocks(extensions, s1, n1, s2, n2) ==
    /\ Len(extensions) = n1 + n2
    /\ \A j \in 1..Len(extensions) :
         extensions[j].seq = IF j <= n1 THEN s1 ELSE s2

IndelExample ==
    IsBlocks(left_extensions, <<"A", "C", "G", "T">>, 5, <<"A", "G", "T">>, 5)

\* live overhangs whose base at curr_pos + offset is base
Tally(extensions, base, offset) ==
    Cardinality({j \in 1..Len(extensions) :
        /\ ~extensions[j].is_droped
        /\ extensions[j].curr_pos + offset < Len(extensions[j].seq)
        /\ extensions[j].seq[extensions[j].curr_pos + offset + 1] = base})

BaseOrder == <<"A", "T", "G", "C">>

\* the first base, in the order A, T, G, C, whose tally is the highest
FirstOfHighest(tally) ==
    BaseOrder[CHOOSE i \in 1..4 :
                 /\ \A m \in 1..4 : tally[BaseOrder[m]] <= tally[BaseOrder[i]]
                 /\ \A m \in 1..(i - 1) :
                      tally[BaseOrder[m]] < tally[BaseOrder[i]]]

CurrentTally(extensions) ==
    [b \in {"A", "T", "G", "C"} |-> Tally(extensions, b, 0)]

\* the look-ahead tally: next bases of the live overhangs at base elig
NextTally(extensions, elig) ==
    [b \in {"A", "T", "G", "C"} |->
        Tally(SelectSeq(extensions,
                  LAMBDA e : /\ ~e.is_droped
                             /\ e.curr_pos < Len(e.seq)
                             /\ e.seq[e.curr_pos + 1] = elig),
              b, 1)]

IdenticalOverhangs(extensions) ==
    /\ Len(extensions) >= MIN_COVERAGE
    /\ Len(extensions[1].seq) >= 2
    /\ \A i \in 1..Len(extensions[1].seq) : IsBase(extensions[1].seq[i])
    /\ \A j \in 1..Len(extensions) : extensions[j].seq = extensions[1].seq

\* C14: on MIN_COVERAGE or more identical overhangs of a string s of two or
\* more bases the walker returns s without its last base.
C14_IdenticalOverhangs ==
    (pc = "returned" /\ IdenticalOverhangs(left_extensions)) =>
        contig_ext = SubSeq(left_extensions[1].seq, 1,
                            Len(left_extensions[1].seq) - 1)

\* ten overhangs ACGT gave ACG
C14_Witness ==
    /\ pc = "returned"
    /\ IsBlocks(left_extensions, <<"A", "C", "G", "T">>, 10, <<>>, 0)
    /\ contig_ext = <<"A", "C", "G">>

LiveCount(extensions) ==
    Cardinality({j \in 1..Len(extensions) : ~extensions[j].is_droped})

\* C15: a walker run entered with fewer than MIN_COVERAGE live overhangs
\* (an empty list included) returns at step 0 with the empty string and
\* leaves every overhang as it was.
C15_BelowCoverageReturnsEmpty ==
    [][(pc = "walk" /\ contig_ext = <<>>
          /\ LiveCount(left_extensions) < MIN_COVERAGE) =>
         /\ pc' = "returned"
         /\ contig_ext' = <<>>
         /\ left_extensions' = left_extensions]_vars

\* four overhangs AAAA, untouched, and the empty string returned
C15_Witness ==
    /\ pc = "returned"
    /\ contig_ext = <<>>
    /\ IsBlocks(left_extensions, <<"A", "A", "A", "A">>, 4, <<>>, 0)
    /\ \A j \in 1..4 : /\ left_extensions[j].curr_pos = 0
                       /\ ~left_extensions[j].is_droped

\* C16: when every overhang of the list has fewer than two bases the walker
\* emits nothing.
C16_ShortOverhangsEmitNothing ==
    (\A j \in 1..Len(left_extensions) : Len(left_extensions[j].seq) < 2) =>
        contig_ext = <<>>

\* the walker returned on MIN_COVERAGE or more live one-base overhangs
C16_Witness ==
    /\ pc = "returned"
    /\ contig_ext = <<>>
    /\ Len(left_extensions) >= MIN_COVERAGE
    /\ \A j \in 1..Len(left_extensions) :
         /\ Len(left_extensions[j].seq) = 1
         /\ ~left_extensions[j].is_droped

\* the overhangs of a list that belong to the read of a record
OverhangsOf(extensions, record) ==
    {j \in 1..Len(extensions) : extensions[j].read_id = record.qName}

\* a mapped record with a leading soft clip that dangles past the contig
\* start and begins less than INNER_MARGIN bases into the contig
DanglesLeft(record) ==
    /\ (record.flag \div 4) % 2 = 0
    /\ Len(record.cigar) > 0
    /\ record.cigar[1].operation = "S"
    /\ record.beginPos >= 0
    /\ record.beginPos < INNER_MARGIN
    /\ record.cigar[1].count > record.beginPos

DanglingLen(record) == record.cigar[1].count - record.beginPos

\* C17: after the extraction, a record dangling left by len <= MAX_EXT
\* bases has its left overhang equal to the reverse of the first len bases
\* of the read.
C17_LeftOverhangIsDanglingPrefix ==
    pc = "scanned" =>
        \A i \in 1..Len(aln_records) :
            (DanglesLeft(aln_records[i])
               /\ DanglingLen(aln_records[i]) <= max_ext_length) =>
                \E j \in OverhangsOf(left_extensions, aln_records[i]) :
                    left_extensions[j].seq =
                        Reverse(SubSeq(aln_records[i].seq, 1,
                                       DanglingLen(aln_records[i])))

\* C18: after the extraction, a record dangling left by len > MAX_EXT bases
\* has its left overhang equal to the reverse of the read bases at offsets
\* [len - MAX_EXT, len), MAX_EXT bases long.
C18_LeftOverhangCapped ==
    pc = "scanned" =>
        \A i \in 1..Len(aln_records) :
            (DanglesLeft(aln_records[i])
               /\ DanglingLen(aln_records[i]) > max_ext_length) =>
                \E j \in OverhangsOf(left_extensions, aln_records[i]) :
                    /\ ~left_extensions[j].is_droped
                    /\ Len(left_extensions[j].seq) = max_ext_length
                    /\ left_extensions[j].seq =
                         Reverse(SubSeq(aln_records[i].seq,
                                        DanglingLen(aln_records[i])
                                           - max_ext_length + 1,
                                        DanglingLen(aln_records[i])))

\* a clip dangling by more than max_ext_length bases at beginPos 0 was
\* stored live with max_ext_length bases, the clip's last base first
C18_Witness ==
    /\ pc = "scanned"
    /\ \E i \in 1..Len(aln_records) :
         /\ DanglesLeft(aln_records[i])
         /\ aln_records[i].beginPos = 0
         /\ DanglingLen(aln_records[i]) > max_ext_length
         /\ \E j \in OverhangsOf(left_extensions, aln_records[i]) :
              /\ ~left_extensions[j].is_droped
              /\ Len(left_extensions[j].seq) = max_ext_length
              /\ left_extensions[j].seq[1] =
                    aln_records[i].seq[aln_records[i].cigar[1].count]

\* a mapped record with a trailing soft clip
ClippedRight(record) ==
    /\ (record.flag \div 4) % 2 = 0
    /\ Len(record.cigar) > 0
    /\ record.cigar[Len(record.cigar)].operation = "S"

\* C19: after the extraction, a record with beginPos = OUTER_MARGIN has no
\* left overhang, and a record with a trailing soft clip, margin =
\* OUTER_MARGIN and len > 0 has a right overhang.
C19_OuterMarginLimits ==
    pc = "scanned" =>
        \A i \in 1..Len(aln_records) :
            /\ aln_records[i].beginPos = OUTER_MARGIN =>
                 OverhangsOf(left_extensions, aln_records[i]) = {}
            /\ (ClippedRight(aln_records[i])
                  /\ Margin(aln_records[i], Len(contig_seq)) = OUTER_MARGIN
                  /\ RightLen(aln_records[i], Len(contig_seq)) > 0) =>
                 OverhangsOf(right_extensions, aln_records[i]) /= {}

\* a batch with a record clipped on the left by more than OUTER_MARGIN bases
\* at beginPos = OUTER_MARGIN and a record ending OUTER_MARGIN bases before
\* the contig end with a longer clip
C19_Witness ==
    /\ pc = "scanned"
    /\ \E i \in 1..Len(aln_records) :
         /\ aln_records[i].beginPos = OUTER_MARGIN
         /\ aln_records[i].cigar[1].operation = "S"
         /\ aln_records[i].cigar[1].count > OUTER_MARGIN
         /\ OverhangsOf(left_extensions, aln_records[i]) = {}
    /\ \E i \in 1..Len(aln_records) :
         /\ ClippedRight(aln_records[i])
         /\ Margin(aln_records[i], Len(contig_seq)) = OUTER_MARGIN
         /\ OverhangsOf(right_extensions, aln_records[i]) /= {}

\* C20: after the extraction, a live overhang belongs to a record whose
\* distance from that contig end (beginPos on the left, margin on the
\* right) is below INNER_MARGIN, and every overhang of a record at distance
\* INNER_MARGIN is a dropped placeholder.
C20_LiveOnlyBelowInnerMargin ==
    pc = "scanned" =>
        \A i \in 1..Len(aln_records) :
            /\ \A j \in OverhangsOf(left_extensions, aln_records[i]) :
                 /\ ~left_extensions[j].is_droped =>
                       aln_records[i].beginPos < INNER_MARGIN
                 /\ aln_records[i].beginPos = INNER_MARGIN =>
                       left_extensions[j].is_droped
            /\ \A j \in OverhangsOf(right_extensions, aln_records[i]) :
                 /\ ~right_extensions[j].is_droped =>
                       Margin(aln_records[i], Len(contig_seq)) < INNER_MARGIN
                 /\ Margin(aln_records[i], Len(contig_seq)) = INNER_MARGIN =>
                       right_extensions[j].is_droped

\* C21: while no setter call has made the program exit, the stored tunables
\* satisfy inner_margin >= 0, outer_margin >= inner_margin,
\* max_ext_length > 0 and min_coverage > 0.
C21_TunablesConsistent ==
    pc /= exit_with_message =>
        /\ tunables.inner_margin >= 0
        /\ tunables.outer_margin >= tunables.inner_margin
        /\ tunables.max_ext_length > 0
        /\ tunables.min_coverage > 0

\* C22: the core tests against the stored tunables: a walker pass appends a
\* base only when the current-base coverage is at least
\* tunables.min_coverage and the look-ahead coverage at least 0.6 times it,
\* and the extractor stores a left overhang only for a record beginning less
\* than tunables.outer_margin bases into the contig, a live one only for a
\* record beginning less than tunables.inner_margin bases into it.
C22_StoredTunablesUsed ==
    /\ [][Len(contig_ext') > Len(contig_ext) =>
            /\ LiveCoverage(left_extensions) >= tunables.min_coverage
            /\ 10 * LookAheadCoverage(left_extensions,
                                      contig_ext'[Len(contig_ext')])
                 >= 6 * tunables.min_coverage]_vars
    /\ [](pc = "scanned" =>
            \A i \in 1..Len(aln_records) :
                \A j \in OverhangsOf(left_extensions, aln_records[i]) :
                    /\ aln_records[i].beginPos < tunables.outer_margin
                    /\ ~left_extensions[j].is_droped =>
                          aln_records[i].beginPos < tunables.inner_margin)

Running(r) == run_pc[r] \notin {"idle", "returned"}

\* C24: while the runs for two contigs are both under way, each of the three
\* temporary paths of one differs from that of the other, and no run
\* indexes, aligns or reads back a file holding the other run's data.
C24_TemporaryFilesPerRun ==
    /\ [](\A r1, r2 \in Runs :
            (r1 /= r2 /\ Running(r1) /\ Running(r2)) =>
                /\ ContigFileOf(r1) /= ContigFileOf(r2)
                /\ ReadsFileOf(r1) /= ReadsFileOf(r2)
                /\ SamFileOf(r1) /= SamFileOf(r2))
    /\ [][\A r \in Runs :
            /\ (run_pc[r] = "index" /\ run_pc'[r] = "align") =>
                  tmp_files[ContigFileOf(r)] = r
            /\ (run_pc[r] = "align" /\ run_pc'[r] = "read_sam") =>
                  /\ tmp_files[ContigFileOf(r)] = r
                  /\ tmp_files[ReadsFileOf(r)] = r
            /\ (run_pc[r] = "read_sam" /\ run_pc'[r] = "loop") =>
                  tmp_files[SamFileOf(r)] = r]_vars

\* the first refinement iteration has run both walkers
FirstIterationWalked == pc = "grow" /\ ~index_called

\* C25: when the right overhangs of the reads are the strings S and their
\* left-dangling prefixes the reverses of S, the left extension of the first
\* iteration is the reverse of its right extension.
C25_EndsMirrored ==
    FirstIterationWalked => left_extension = Reverse(right_extension)

\* the non-empty sequences of a list of overhangs, in list order, each cut
\* to its first max_ext_length bases
NonEmptyTruncated(extensions) ==
    LET kept == SelectSeq(extensions, LAMBDA e : Len(e.seq) > 0)
    IN  [j \in 1..Len(kept) |->
            SubSeq(kept[j].seq, 1, Min(Len(kept[j].seq), max_ext_length))]

\* C26: when extend_contig_poa returns, the kernel was called once per end,
\* first on the non-empty left overhang sequences and then on the non-empty
\* right ones, in list order and each cut to MAX_EXT bases; the left
\* extension is the reverse of the first answer and the right extension the
\* second answer; no walker pass, coverage gate or aligner call took place
\* (no cursor moved, no overhang was dropped after the extraction, the
\* contig is unchanged).
C26_PoaInputsAndReversal ==
    pc = "poa_returned" =>
        /\ Len(poa_calls) = 2
        /\ poa_calls[1].extensions = NonEmptyTruncated(left_extensions)
        /\ poa_calls[2].extensions = NonEmptyTruncated(right_extensions)
        /\ left_extension = Reverse(poa_calls[1].consensus)
        /\ right_extension = poa_calls[2].consensus
        /\ ~index_called /\ ~align_called
        /\ contig_ext = <<>> /\ contig_seq = contig0
        /\ \A j \in 1..Len(left_extensions) :
             /\ left_extensions[j].curr_pos = 0
             /\ left_extensions[j].is_droped => left_extensions[j].seq = <<>>
        /\ \A j \in 1..Len(right_extensions) :
             /\ right_extensions[j].curr_pos = 0
             /\ right_extensions[j].is_droped => right_extensions[j].seq = <<>>

\* the left list held a placeholder and a live overhang, the kernel got the
\* live one only, and its answer was reversed into a different string
C26_Witness ==
    /\ pc = "poa_returned"
    /\ Len(left_extensions) = 2
    /\ Len(poa_calls[1].extensions) = 1
    /\ \E j \in 1..2 : left_extensions[j].is_droped
    /\ left_extension /= poa_calls[1].consensus

\* bases of an overhang at and after its cursor
Remaining(e) == Len(e.seq) - e.curr_pos

\* the rule table, first matching rule, for an overhang with at least two
\* bases at and after its cursor
RuleTable(e, output_base, next_mv) ==
    LET c == e.seq[e.curr_pos + 1]
        n == e.seq[e.curr_pos + 2]
    IN  IF c = output_base THEN [e EXCEPT !.curr_pos = @ + 1]
        ELSE IF c = next_mv THEN e
        ELSE IF n = next_mv THEN [e EXCEPT !.curr_pos = @ + 1]
        ELSE IF n = output_base THEN [e EXCEPT !.curr_pos = @ + 2]
        ELSE [e EXCEPT !.is_droped = TRUE]

\* a walker pass that appends a base and realigns the list
Realigning == pc = "walk" /\ Len(contig_ext') > Len(contig_ext)

\* C27: in the realignment of a walker pass every live overhang with at
\* least 2 bases remaining is changed by the first matching rule of the
\* table: c = output_base moves the cursor by 1, else c = next_mv leaves it,
\* else n = next_mv moves it by 1, else n = output_base moves it by 2,
\* otherwise the overhang is dropped with its cursor unchanged.
C27_RuleTableApplied ==
    [][Realigning =>
        \A j \in 1..Len(left_extensions) :
            (~left_extensions[j].is_droped
               /\ Remaining(left_extensions[j]) >= 2) =>
                left_extensions'[j] =
                    RuleTable(left_extensions[j],
                              WalkerOutputBase(left_extensions),
                              WalkerNextMv(left_extensions))]_vars

\* C28: in the realignment of a walker pass a live overhang with fewer than
\* 2 bases remaining is dropped with its cursor unchanged, and one with
\* exactly 2 bases remaining is not dropped by the length check but changed
\* by the rule table.
C28_LengthCheckBelowTwo ==
    [][Realigning =>
        \A j \in 1..Len(left_extensions) :
            ~left_extensions[j].is_droped =>
                /\ Remaining(left_extensions[j]) < 2 =>
                     left_extensions'[j] =
                        [left_extensions[j] EXCEPT !.is_droped = TRUE]
                /\ Remaining(left_extensions[j]) = 2 =>
                     left_extensions'[j] =
                        RuleTable(left_extensions[j],
                                  WalkerOutputBase(left_extensions),
                                  WalkerNextMv(left_extensions))]_vars

Placeholder(e) == e.is_droped /\ e.seq = <<>>

\* a mapped record dangling left whose alignment begins at or past
\* INNER_MARGIN and before OUTER_MARGIN
BetweenMarginsLeft(record) ==
    /\ (record.flag \div 4) % 2 = 0
    /\ Len(record.cigar) > 0
    /\ record.cigar[1].operation = "S"
    /\ record.beginPos >= INNER_MARGIN
    /\ record.beginPos < OUTER_MARGIN
    /\ record.cigar[1].count > record.beginPos

\* a mapped record dangling right whose alignment ends more than
\* INNER_MARGIN and at most OUTER_MARGIN bases before the contig end
BetweenMarginsRight(record, contig_len) ==
    /\ ClippedRight(record)
    /\ Margin(record, contig_len) > INNER_MARGIN
    /\ Margin(record, contig_len) <= OUTER_MARGIN
    /\ RightLen(record, contig_len) > 0

\* the overhangs a list gained in a step that belong to the read of a record
Gained(before, after, record) ==
    {j \in (Len(before) + 1)..Len(after) : after[j].read_id = record.qName}

WithoutPlaceholders(extensions) ==
    SelectSeq(extensions, LAMBDA e : ~Placeholder(e))

\* C29: an extraction that returns appends, for every record whose alignment
\* lies between the margins of a contig end, an overhang of its read to that
\* end's list, and every such overhang is a placeholder (empty sequence,
\* dropped); a placeholder adds to no histogram of the walker; and the
\* partition of an iteration that finds a placeholder in a list writes its
\* read to the reads handed to the aligner and goes on to the aligner.
C29_PlaceholdersRealigned ==
    /\ [][(pc \in {"start", "extract"} /\ pc' /= "threw_out_of_range") =>
            \A i \in 1..Len(aln_records) :
                /\ BetweenMarginsLeft(aln_records[i]) =>
                     /\ Gained(left_extensions, left_extensions',
                               aln_records[i]) /= {}
                     /\ \A j \in Gained(left_extensions, left_extensions',
                                        aln_records[i]) :
                            Placeholder(left_extensions'[j])
                /\ BetweenMarginsRight(aln_records[i], Len(contig_seq)) =>
                     /\ Gained(right_extensions, right_extensions',
                               aln_records[i]) /= {}
                     /\ \A j \in Gained(right_extensions, right_extensions',
                                        aln_records[i]) :
                            Placeholder(right_extensions'[j])]_vars
    /\ [](/\ WalkerBases(left_extensions) =
               WalkerBases(WithoutPlaceholders(left_extensions))
          /\ WalkerNextBases(left_extensions) =
               WalkerNextBases(WithoutPlaceholders(left_extensions))
          /\ WalkerBases(right_extensions) =
               WalkerBases(WithoutPlaceholders(right_extensions))
          /\ WalkerNextBases(right_extensions) =
               WalkerNextBases(WithoutPlaceholders(right_extensions)))
    /\ [][pc = "grow" =>
            \A e \in Range(left_extensions) \cup Range(right_extensions) :
                Placeholder(e) =>
                    /\ pc' = "index"
                    /\ e.read_id \in Range(dropped_read_ids')]_vars

\* the first iteration's walkers returned nothing, so no overhang was
\* dropped by a walker, and reads were written for the aligner: the reads
\* of the placeholders the first extraction made
C29_Witness ==
    /\ pc = "index"
    /\ ~index_called
    /\ left_extension = <<>>
    /\ right_extension = <<>>
    /\ dropped_read_ids /= <<>>

\* the reads owning a dropped overhang in a list
DroppedOwners(extensions) ==
    {extensions[j].read_id :
        j \in {k \in 1..Len(extensions) : extensions[k].is_droped}}

\* C30: the partition of a refinement iteration writes for realignment the
\* reads that own a dropped overhang in the left or the right list, each
\* once, and no other read; when no overhang is dropped it writes none and
\* the loop returns.
C30_DroppedReadsWrittenOnce ==
    [][pc = "grow" =>
        LET owners == DroppedOwners(left_extensions)
                         \cup DroppedOwners(right_extensions)
        IN  IF owners = {}
            THEN pc' = "done"
            ELSE /\ pc' = "index"
                 /\ Range(dropped_read_ids') = owners
                 /\ Len(dropped_read_ids') = Cardinality(owners)]_vars

\* in the first iteration both walkers emitted and every overhang of both
\* lists was dropped, every read having one on each side; each read was
\* written once
C30_Witness ==
    /\ pc = "index"
    /\ ~index_called
    /\ left_extension /= <<>>
    /\ right_extension /= <<>>
    /\ left_extensions = <<>>
    /\ right_extensions = <<>>
    /\ Len(dropped_read_ids) = NumReads

\* position of a read's record in the batch about to be scanned
RecordOf(read_id) ==
    CHOOSE i \in 1..Len(aln_records) : aln_records[i].qName = read_id

\* after is before followed by fresh overhangs (cursor 0) whose reads have a
\* record in the batch, in the order of their records
ExtendedInRecordOrder(before, after) ==
    /\ Len(after) >= Len(before)
    /\ SubSeq(after, 1, Len(before)) = before
    /\ \A j \in (Len(before) + 1)..Len(after) :
         /\ after[j].curr_pos = 0
         /\ \E i \in 1..Len(aln_records) :
              aln_records[i].qName = after[j].read_id
    /\ \A j, k \in (Len(before) + 1)..Len(after) :
         j < k => RecordOf(after[j].read_id) < RecordOf(after[k].read_id)

\* C31: the partition of a refinement iteration keeps, on each side, the
\* live overhangs in their order with their cursors and removes the dropped
\* ones; the lists stay so until the re-extraction, which leaves each list
\* as it was followed by the newly extracted overhangs in record order.
C31_SurvivorsThenNew ==
    /\ [][(pc = "grow" /\ pc' = "index") =>
            (/\ left_extensions' =
                  SelectSeq(left_extensions, LAMBDA e : ~e.is_droped)
             /\ right_extensions' =
                  SelectSeq(right_extensions, LAMBDA e : ~e.is_droped))]_vars
    /\ [](pc \in {"index", "align", "extract"} =>
            (/\ LiveCount(left_extensions) = Len(left_extensions)
             /\ LiveCount(right_extensions) = Len(right_extensions)))
    /\ [][(pc = "index" \/ pc = "align") =>
            (/\ left_extensions' = left_extensions
             /\ right_extensions' = right_extensions)]_vars
    /\ [][(pc = "extract" /\ pc' /= "threw_out_of_range") =>
            (/\ ExtendedInRecordOrder(left_extensions, left_extensions')
             /\ ExtendedInRecordOrder(right_extensions, right_extensions'))]_vars

\* after a re-extraction a list holds a survivor whose cursor the walker had
\* moved, followed by a newly extracted overhang
C31_Witness ==
    /\ pc \in {"loop", "done"}
    /\ index_called
    /\ \E j \in 1..Len(left_extensions) :
         /\ left_extensions[j].curr_pos > 0
         /\ j < Len(left_extensions)
         /\ left_extensions[Len(left_extensions)].curr_pos = 0

\* C32: a realigning iteration writes the grown contig and the dropped
\* reads, then indexes the contig, then aligns, then reads the records and
\* re-extracts against the grown contig's length; the contig is written
\* nowhere else, so the index call before an align call is made on the
\* contig file as last written.
C32_IndexBetweenWriteAndAlign ==
    /\ [][pc' = "index" =>
            (/\ pc = "grow"
             /\ contig_seq' =
                  ToDna5String(left_extension) \o contig_seq
                     \o ToDna5String(right_extension)
             /\ dropped_read_ids' /= <<>>)]_vars
    /\ [][pc' = "align" =>
            (/\ pc = "index"
             /\ index_called'
             /\ contig_seq' = contig_seq
             /\ dropped_read_ids' = dropped_read_ids)]_vars
    /\ [][pc' = "extract" =>
            (/\ pc = "align"
             /\ align_called'
             /\ contig_seq' = contig_seq
             /\ \A i \in 1..Len(aln_records') :
                  \E j \in 1..Len(dropped_read_ids) :
                     aln_records'[i].qName = dropped_read_ids[j])]_vars
    /\ [][(pc = "extract" /\ pc' /= "threw_out_of_range") =>
            (LET r == find_possible_extensions(aln_records, 1,
                         left_extensions, right_extensions, Len(contig_seq))
             IN  /\ left_extensions' = r.left
                 /\ right_extensions' = r.right
                 /\ contig_seq' = contig_seq)]_vars
    /\ [][contig_seq' /= contig_seq => pc = "grow"]_vars

\* a realigning iteration has indexed and aligned a contig grown by more
\* than one side's limit and is about to re-extract
C32_Witness ==
    /\ pc = "extract"
    /\ index_called
    /\ align_called
    /\ aln_records /= <<>>
    /\ Len(contig_seq) > Len(contig0) + max_ext_length

RECURSIVE TotalBases(_, _)
\* the number of bases held by extensions[i..]
TotalBases(extensions, i) ==
    IF i > Len(extensions) THEN 0
    ELSE Len(extensions[i].seq) + TotalBases(extensions, i + 1)

\* C33: every pass of the walker that pushes a base moves the cursor of a
\* live overhang forward or drops a live overhang, the bases pushed never
\* outnumber the bases of the list, and the walker returns.
C33_WalkerTerminates ==
    /\ [][Realigning =>
            \E j \in 1..Len(left_extensions) :
               /\ ~left_extensions[j].is_droped
               /\ \/ left_extensions'[j].curr_pos
                        > left_extensions[j].curr_pos
                  \/ left_extensions'[j].is_droped]_vars
    /\ [](Len(contig_ext) <= TotalBases(left_extensions, 1))
    /\ <>(pc = "returned")

\* the walker has returned after pushing two bases or more
C33_Witness ==
    /\ pc = "returned"
    /\ Len(contig_ext) >= 2
    /\ \E j \in 1..Len(left_extensions) : ~left_extensions[j].is_droped

RECURSIVE LongestOverhang(_, _)
\* the length of the longest sequence of extensions[i..]
LongestOverhang(extensions, i) ==
    IF i > Len(extensions) THEN 0
    ELSE LET rest == LongestOverhang(extensions, i + 1)
         IN  IF Len(extensions[i].seq) > rest THEN Len(extensions[i].seq)
             ELSE rest

\* C34: get_extension_mv_simple returns on every list, with a string no
\* longer than the longest overhang of the list.
C34_SimpleTerminates ==
    /\ [](Len(contig_ext) <= LongestOverhang(left_extensions, 1))
    /\ <>(pc = "returned")

\* the realignment loop of a pass reads seq[curr_pos] and seq[curr_pos + 1]
\* of overhang e: e is live and the length test has not fired
ReadsTwoBases(e) == ~e.is_droped /\ ~TooShort(e)

\* C35: whenever the realignment of a walker pass reads the two characters
\* of an overhang, both positions lie inside the overhang's sequence.
C35_ReadsInsideSequence ==
    [][Realigning =>
        \A j \in 1..Len(left_extensions) :
            ReadsTwoBases(left_extensions[j]) =>
                left_extensions[j].curr_pos + 1
                    < Len(left_extensions[j].seq)]_vars

\* after is before, or before without its dropped overhangs, or before
\* followed by further overhangs
KeptOrPartitionedOrExtended(before, after) ==
    \/ after = before
    \/ after = SelectSeq(before, LAMBDA e : ~e.is_droped)
    \/ /\ Len(after) > Len(before)
       /\ SubSeq(after, 1, Len(before)) = before

\* C36: a should_ext flag that is false stays false, and from then on the
\* side's total is fixed and its list is only partitioned and appended to,
\* no cursor and no dropped flag of it changing; the flag is false at the
\* head of every iteration once the side's total has reached
\* max_ext_length.
C36_FlagsNeverReturn ==
    /\ [][~should_ext_left =>
            (/\ ~should_ext_left'
             /\ total_left_ext' = total_left_ext
             /\ KeptOrPartitionedOrExtended(left_extensions,
                                            left_extensions'))]_vars
    /\ [][~should_ext_right =>
            (/\ ~should_ext_right'
             /\ total_right_ext' = total_right_ext
             /\ KeptOrPartitionedOrExtended(right_extensions,
                                            right_extensions'))]_vars
    /\ [](pc \in {"index", "align", "extract", "loop", "left"} =>
            (/\ should_ext_left => total_left_ext < max_ext_length
             /\ should_ext_right => total_right_ext < max_ext_length))

\* the left flag is false in an iteration entered after a realignment that
\* left the left list with overhangs the walker would push a base from
C36_Witness ==
    /\ pc = "right"
    /\ index_called
    /\ ~should_ext_left
    /\ should_ext_right
    /\ WalkerEmits(left_extensions)

\* what a walker pass may do to a list: the entries stay in place with
\* their read and sequence, an overhang dropped before the pass is left as
\* it is, and a live one changes at most its cursor and its dropped flag
OnlyLiveCursorsAndFlags(before, after) ==
    /\ Len(after) = Len(before)
    /\ \A j \in 1..Len(before) :
         /\ after[j].read_id = before[j].read_id
         /\ after[j].seq = before[j].seq
         /\ before[j].is_droped => after[j] = before[j]

\* C37: a pushing pass of the walker on one side changes, of both lists,
\* only cursors and dropped flags of overhangs of that side that were live
\* when the pass began.
C37_WalkerPassFrame ==
    /\ [][(pc = "left" /\ contig_ext' /= contig_ext /\ pc' = "left") =>
            (/\ OnlyLiveCursorsAndFlags(left_extensions, left_extensions')
             /\ right_extensions' = right_extensions)]_vars
    /\ [][(pc = "right" /\ contig_ext' /= contig_ext /\ pc' = "right") =>
            (/\ OnlyLiveCursorsAndFlags(right_extensions, right_extensions')
             /\ left_extensions' = left_extensions)]_vars

\* the walker has pushed a base on the left from a list that holds a
\* dropped overhang with bases and a live overhang moved forward, the right
\* list not being empty
C37_Witness ==
    /\ pc = "left"
    /\ contig_ext /= <<>>
    /\ right_extensions /= <<>>
    /\ \E j \in 1..Len(left_extensions) :
          left_extensions[j].is_droped /\ left_extensions[j].seq /= <<>>
    /\ \E j \in 1..Len(left_extensions) :
          ~left_extensions[j].is_droped /\ left_extensions[j].curr_pos > 0

\* the number of bases put in front of the original contig so far: the left
\* total, less the left extension of the running iteration while it is not
\* yet part of the contig
PrependedSoFar ==
    IF pc \in {"right", "grow"} THEN total_left_ext - Len(left_extension)
    ELSE total_left_ext

\* C38: the original contig lies unmodified in the current contig, at the
\* offset given by the bases prepended so far; after an iteration that is
\* total_left_ext.
C38_OriginalContigKept ==
    /\ PrependedSoFar >= 0
    /\ PrependedSoFar + Len(contig0) <= Len(contig_seq)
    /\ SubSeq(contig_seq, PrependedSoFar + 1, PrependedSoFar + Len(contig0))
          = contig0

\* a run that realigned has returned a contig grown by two bases or more
\* on both ends
C38_Witness ==
    /\ pc = "done"
    /\ align_called
    /\ total_left_ext >= 2
    /\ total_right_ext >= 2
    /\ Len(contig_seq) = Len(contig0) + total_left_ext + total_right_ext

====
